---- MODULE Spec2Model ----
(***************************************************************************)
(* Zaplink backend: the item store, the resolution handlers                *)
(* (getZapByShortId in its successive versions, FileController.getFile),   *)
(* creation, and the background sweep.                                     *)
(*                                                                         *)
(* A request is a process.  Between two awaits a handler runs without      *)
(* interruption (one JavaScript event loop), so every action below is the  *)
(* code from one database round trip to the next.  bcrypt calls are        *)
(* awaited too, but they read nothing shared, so they are folded into the  *)
(* step that follows the read of the record.                               *)
(***************************************************************************)
EXTENDS Integers, Sequences, FiniteSets, TLC

(* ------------------------------ bounds --------------------------------- *)
\* concurrent request contexts
NumReq == 2
\* largest viewLimit a creation asks for
MaxLimit == 2
\* the clock runs 0..MaxTime
MaxTime == 2
\* records ever inserted
MaxItems == 1
\* a resolution starts only while the row's viewCount is below MaxViews
MaxViews == 3
\* rows the creation path inserts
MaxRows == 2
\* longest text sealed, in characters
MaxText == 2
\* draws of crypto.randomBytes
MaxSeeds == 4
\* files uploaded in a behaviour
MaxUploads == 3
\* invalid attempts registered and not cleared, over all callers
MaxAttempts == 7

Procs == 1..NumReq
\* the candidates nanoid() draws for shortId
ShortIds == {"a1B2c3D4"}

(* ------------------------------ values --------------------------------- *)
\* SQL NULL / JS null of a numeric or date column
NULL == 0 - 1
\* null / undefined / "" of a string: all falsy in the handlers' tests
NoStr == ""
\* findUnique's null: no row
NoZap == [id |-> 0, viewCount |-> 0, viewLimit |-> NULL, expiresAt |-> NULL,
          unlockAt |-> NULL, passwordHash |-> NoStr, quizQuestion |-> NoStr,
          quizAnswerHash |-> NoStr, cloudUrl |-> NoStr, originalUrl |-> NoStr,
          deletionToken |-> NoStr]

\* bcrypt.hash(s, 10) and bcrypt.compare(s, h): compare succeeds exactly on
\* the string that was hashed
bcryptHash(s) == "$2b$10$" \o s
bcryptCompare(s, h) == h = bcryptHash(s)

\* the passwords and quiz answers callers send ("" is no credential)
GoodPassword == "P@ss1234"
Passwords == {NoStr, GoodPassword, "Wr0ng!pass"}
QuizQuestion == "Capital of France?"
GoodAnswer == "paris"
Answers == {NoStr, GoodAnswer, "rome"}

\* String.prototype.toLowerCase(), letter by letter
UpperLetters == "ABCDEFGHIJKLMNOPQRSTUVWXYZ"
LowerLetters == "abcdefghijklmnopqrstuvwxyz"
RECURSIVE lowerChar(_, _)
lowerChar(c, i) ==
    IF i > Len(UpperLetters) THEN c
    ELSE IF SubSeq(UpperLetters, i, i) = c THEN SubSeq(LowerLetters, i, i)
    ELSE lowerChar(c, i + 1)
RECURSIVE toLowerCase(_)
toLowerCase(s) ==
    IF s = "" THEN ""
    ELSE lowerChar(SubSeq(s, 1, 1), 1) \o toLowerCase(SubSeq(s, 2, Len(s)))

\* String.prototype.trim(): white space off both ends
Whitespace == {" ", "\t", "\n"}
RECURSIVE trimStart(_)
trimStart(s) ==
    IF s # "" /\ SubSeq(s, 1, 1) \in Whitespace
    THEN trimStart(SubSeq(s, 2, Len(s))) ELSE s
RECURSIVE trimEnd(_)
trimEnd(s) ==
    IF s # "" /\ SubSeq(s, Len(s), Len(s)) \in Whitespace
    THEN trimEnd(SubSeq(s, 1, Len(s) - 1)) ELSE s
trim(s) == trimEnd(trimStart(s))

\* answer.trim().toLowerCase()
trimLower(s) == toLowerCase(trim(s))

hashQuizAnswer(answer) == bcryptHash(trimLower(answer))
verifyQuizAnswer(providedAnswer, hashedAnswer) == bcryptCompare(providedAnswer, hashedAnswer)
verifyZapPassword(password, hash) == bcryptCompare(password, hash)
hasQuizProtection(zap) == zap.quizQuestion # NoStr /\ zap.quizAnswerHash # NoStr

(* ------------------------------ responses ------------------------------ *)
Resp(status, message) == [status |-> status, message |-> message]
\* the gates let the request through
Allowed == Resp(0, "allowed")
NoResp == Resp(0, "")

(* ------------------------------ state ---------------------------------- *)
VARIABLES
    store,      \* table "Zap": shortId -> record, NoZap when no row has it
    blobs,      \* ids of the records whose uploaded file is still in the blob store
    now,        \* the clock (new Date(), NOW())
    nextId,     \* next primary key
    req,        \* the request contexts
    sweep,      \* the scheduled cleanup task
    served,     \* per record id: responses that carried its content
    denied,     \* per record id: a resolution was denied as expired / over quota
    table,      \* table "Zap" as the creation path sees it: rows with their unique columns
    creq,       \* the creation request contexts
    env,        \* the content envelope at hand, and what sealed and opened it
    zapPasswordAttemptStore,    \* the Map of rateLimiter.ts: key -> {count, resetAt}
    attempted   \* per caller: when it registered invalid attempts since its last
                \* clear; the caller and the result of the last registration

vars == <<store, blobs, now, nextId, req, sweep, served, denied, table, creq, env,
          zapPasswordAttemptStore, attempted>>

ItemIds == 1..MaxItems

IdleReq == [pc |-> "idle", handler |-> "none", shortId |-> NoStr, password |-> NoStr,
            quizAnswer |-> NoStr, zap |-> NoZap, resp |-> <<>>, effects |-> {},
            pending |-> NoResp, expiredAtStart |-> FALSE, afterDenial |-> FALSE,
            token |-> NoStr]

\* the values nanoid() draws while ids are scarce
Candidates == {"a1B2c3D4", "Zx9Yw8Vu"}

\* the scheduled task at rest. found: what its query selected; todo: the rows
\* its loop has not reached; released: ids of the rows whose blob it tried to
\* release; unreleased: ids of those whose release failed; erred: ids of the
\* rows whose deletion failed; over: ids of the rows that were at their
\* viewLimit when the task started
IdleSweep == [pc |-> "idle", found |-> {}, todo |-> {}, released |-> {},
              unreleased |-> {}, erred |-> {}, over |-> {}]

\* attempt is generateUniqueId's loop variable; checks and collisions count the
\* findUnique calls of the generateUniqueId call in progress (or of the one
\* that threw) and those that found a row; uploadedUrl names the blob the
\* request uploaded (0: null); allocs is the fieldNames
\* generateUniqueId was called for; inserted counts the rows the request inserted
IdleCreate == [pc |-> "idle", version |-> "none", attempt |-> 0,
               checks |-> 0, collisions |-> 0, allocs |-> {},
               shortId |-> NoStr, qrId |-> NoStr, resp |-> <<>>, inserted |-> 0,
               expiresAt |-> NULL, uploadedUrl |-> 0]

(* ------------------------------ password attempt limiter -------------- *)
\* getZapPasswordAttemptConfig where neither ZAP_PASSWORD_ATTEMPT_WINDOW_MS nor
\* ZAP_PASSWORD_ATTEMPT_MAX is set: 15 * 60 * 1000 ms, 5 attempts
windowMs == 900000
max == 5

\* the callers: req.ip and the shortId asked for; two addresses ask for one
\* shortId, one address asks for two
AttemptCallers == ({"203.0.113.7", "::1"} \X ShortIds) \cup ({"::1"} \X Candidates)

\* `${req.ip}:${shortId}`
getZapPasswordAttemptKey(ip, shortId) == ip \o ":" \o shortId

\* a faulty variant of registerInvalidZapPasswordAttempt: blocked from the
\* max-th attempt on
registerInvalidZapPasswordAttemptEarly(attemptStore, ip, shortId, t) ==
    LET k == getZapPasswordAttemptKey(ip, shortId)
        record == IF attemptStore[k].count = 0 \/ attemptStore[k].resetAt <= t
                  THEN [count |-> 0, resetAt |-> t + windowMs] ELSE attemptStore[k]
    IN  [store |-> [attemptStore EXCEPT ![k] = [record EXCEPT !.count = @ + 1]],
         result |-> [isBlocked |-> record.count + 1 >= max,
                     retryAfterSeconds |-> (record.resetAt - t + 999) \div 1000,
                     attempts |-> record.count + 1, max |-> max]]

\* registerInvalidZapPasswordAttempt at Date.now() = t: the Map after the call
\* and the object returned; a key the Map does not hold reads as count 0 (a
\* record the Map holds has count >= 1). Math.ceil((resetAt - now) / 1000) is
\* at least 1 because resetAt > now for the record in use
registerInvalidZapPasswordAttempt(attemptStore, ip, shortId, t) ==
    LET k == getZapPasswordAttemptKey(ip, shortId)
        record == IF attemptStore[k].count = 0 \/ attemptStore[k].resetAt <= t
                  THEN [count |-> 0, resetAt |-> t + windowMs] ELSE attemptStore[k]
    IN  [store |-> [attemptStore EXCEPT ![k] = [record EXCEPT !.count = @ + 1]],
         result |-> [isBlocked |-> record.count + 1 > max,
                     retryAfterSeconds |-> (record.resetAt - t + 999) \div 1000,
                     attempts |-> record.count + 1, max |-> max]]

\* clearZapPasswordAttemptCounter: Map.delete(key)
clearZapPasswordAttemptCounter(attemptStore, ip, shortId) ==
    [attemptStore EXCEPT ![getZapPasswordAttemptKey(ip, shortId)] = [count |-> 0, resetAt |-> 0]]

(* ------------------------------ content envelope ----------------------- *)
\* process.env.TEXT_ENCRYPTION_KEY of a configured deployment
ENCRYPTION_KEY == "0123456789abcdef0123456789abcdef"
IV_LENGTH == 16
AUTH_TAG_LENGTH == 16
SALT_LENGTH == 64

\* the alphabet of Buffer's "base64" encoding
Base64Alphabet == "ABCDEFGHIJKLMNOPQRSTUVWXYZabcdefghijklmnopqrstuvwxyz0123456789+/"

\* buf.toString("base64") of a sequence of bytes: a group of four characters
\* for every three bytes, the last group padded with "="
toBase64(bytes) ==
    LET c(i) == SubSeq(Base64Alphabet, i + 1, i + 1)
        n == Len(bytes)
        b(i) == IF i <= n THEN bytes[i] ELSE 0
        group(k) ==
            LET i == 3 * k - 2
            IN  c(b(i) \div 4) \o c((b(i) % 4) * 16 + (b(i + 1) \div 16))
                \o (IF i + 1 > n THEN "=" ELSE c((b(i + 1) % 16) * 4 + (b(i + 2) \div 64)))
                \o (IF i + 2 > n THEN "=" ELSE c(b(i + 2) % 64))
        RECURSIVE groups(_, _)
        groups(lo, hi) ==
            IF lo > hi THEN ""
            ELSE IF lo = hi THEN group(lo)
            ELSE groups(lo, (lo + hi) \div 2) \o groups(((lo + hi) \div 2) + 1, hi)
    IN  groups(1, (n + 2) \div 3)

\* Buffer.from(text, "base64"): characters outside the alphabet are skipped,
\* decoding stops at the first "=", a trailing lone sextet is dropped
fromBase64(text) ==
    LET known(ch) == \E i \in 0..63 : SubSeq(Base64Alphabet, i + 1, i + 1) = ch
        idx(ch) == CHOOSE i \in 0..63 : SubSeq(Base64Alphabet, i + 1, i + 1) = ch
        pads == {i \in 1..Len(text) : SubSeq(text, i, i) = "="}
        stop == IF pads = {} THEN Len(text) + 1
                ELSE CHOOSE i \in pads : \A j \in pads : i <= j
        chars == SelectSeq([i \in 1..(stop - 1) |-> SubSeq(text, i, i)], known)
        x == [i \in 1..Len(chars) |-> idx(chars[i])]
        byte(k) ==
            LET j == (((k - 1) * 8) \div 6) + 1
                r == ((k - 1) * 8) % 6
            IN  IF r = 0 THEN x[j] * 4 + (x[j + 1] \div 16)
                ELSE IF r = 2 THEN (x[j] % 16) * 16 + (x[j + 1] \div 4)
                ELSE (x[j] % 4) * 64 + x[j + 1]
    IN  [k \in 1..((Len(x) * 6) \div 8) |-> byte(k)]

\* the "utf8" input encoding of cipher.update: a text is the sequence of its
\* code points
utf8Encode(text) ==
    LET one(cp) ==
            IF cp < 128 THEN <<cp>>
            ELSE IF cp < 2048 THEN <<192 + (cp \div 64), 128 + (cp % 64)>>
            ELSE IF cp < 65536
            THEN <<224 + (cp \div 4096), 128 + ((cp \div 64) % 64), 128 + (cp % 64)>>
            ELSE <<240 + (cp \div 262144), 128 + ((cp \div 4096) % 64),
                   128 + ((cp \div 64) % 64), 128 + (cp % 64)>>
        RECURSIVE enc(_)
        enc(t) == IF Len(t) = 0 THEN <<>> ELSE one(t[1]) \o enc(SubSeq(t, 2, Len(t)))
    IN  enc(text)

\* a faulty variant of utf8Decode: every byte taken for a character
utf8DecodeBytewise(bytes) == bytes

\* the "utf8" output encoding of decipher.update / final: an ill-formed byte
\* decodes to U+FFFD
utf8Decode(bytes) ==
    LET cont(b, i) == i <= Len(b) /\ b[i] >= 128 /\ b[i] < 192
        RECURSIVE dec(_)
        dec(b) ==
            IF Len(b) = 0 THEN <<>>
            ELSE IF b[1] < 128 THEN <<b[1]>> \o dec(SubSeq(b, 2, Len(b)))
            ELSE IF b[1] >= 194 /\ b[1] < 224 /\ cont(b, 2)
            THEN <<(b[1] - 192) * 64 + (b[2] - 128)>> \o dec(SubSeq(b, 3, Len(b)))
            ELSE IF b[1] >= 224 /\ b[1] < 240 /\ cont(b, 2) /\ cont(b, 3)
            THEN <<(b[1] - 224) * 4096 + (b[2] - 128) * 64 + (b[3] - 128)>>
                 \o dec(SubSeq(b, 4, Len(b)))
            ELSE IF b[1] >= 240 /\ b[1] < 245 /\ cont(b, 2) /\ cont(b, 3) /\ cont(b, 4)
            THEN <<(b[1] - 240) * 262144 + (b[2] - 128) * 4096 + (b[3] - 128) * 64
                   + (b[4] - 128)>> \o dec(SubSeq(b, 5, Len(b)))
            ELSE <<65533>> \o dec(SubSeq(b, 2, Len(b)))
    IN  dec(bytes)

\* a faulty variant of randomBytes: the generator yields the same bytes each time
randomBytesFixed(size, seed) == [i \in 1..size |-> (i * 31) % 256]

\* crypto.randomBytes(size): the bytes the generator yields at its seed-th
\* draw; a cryptographic generator does not yield the same bytes at two draws
randomBytes(size, seed) == [i \in 1..size |-> (seed * 97 + i * 31) % 256]

\* crypto.pbkdf2Sync(ENCRYPTION_KEY, salt, 100000, 32, "sha256"), reduced to
\* what the envelope needs of it: a key fixed by the secret and the salt
deriveKey(salt) ==
    LET RECURSIVE mix(_, _)
        mix(lo, hi) ==
            IF lo > hi THEN 0
            ELSE IF lo = hi THEN salt[lo] * lo
            ELSE mix(lo, (lo + hi) \div 2) + mix(((lo + hi) \div 2) + 1, hi)
    IN  ((mix(1, Len(salt)) + Len(ENCRYPTION_KEY)) % 256) + 1

\* aes-256-gcm, reduced to its structure: a keystream fixed by key and iv is
\* combined bytewise with the data (addition modulo 256 in place of XOR), and
\* the tag is a polynomial in the key over the ciphertext bytes, modulo the
\* prime 257, so that every change of one ciphertext byte changes the tag
gcm(key, iv, data, decrypting) ==
    LET RECURSIVE sum(_, _)
        sum(b, i) == IF i > Len(b) THEN 0 ELSE b[i] + sum(b, i + 1)
        stream(i) == (key * 131 + sum(iv, 1) * 17 + i * 29) % 256
        out == [i \in 1..Len(data) |->
                    IF decrypting THEN (data[i] + 256 - stream(i)) % 256
                    ELSE (data[i] + stream(i)) % 256]
        ciphertext == IF decrypting THEN data ELSE out
        RECURSIVE poly(_, _)
        poly(i, h) == IF i > Len(ciphertext) THEN 0
                      ELSE (ciphertext[i] * h + poly(i + 1, (h * key) % 257)) % 257
        t == (poly(1, key) + Len(ciphertext) + sum(iv, 1)) % 257
    IN  [data |-> out,
         authTag |-> [i \in 1..AUTH_TAG_LENGTH |->
                        IF i = 1 THEN t \div 256
                        ELSE IF i = 2 THEN t % 256
                        ELSE (key + i) % 256]]

\* str.split(separator): the stretches between the separators
split(str, separator) ==
    LET marks == {i \in 1..Len(str) : SubSeq(str, i, i) = separator}
        edge(k) == IF k = 0 THEN 0
                   ELSE IF k > Cardinality(marks) THEN Len(str) + 1
                   ELSE CHOOSE i \in marks : Cardinality({j \in marks : j < i}) = k - 1
    IN  [k \in 1..(Cardinality(marks) + 1) |-> SubSeq(str, edge(k - 1) + 1, edge(k) - 1)]

\* what a call returns (ok) or throws; derived: deriveKey was called
Returned(value) == [ok |-> TRUE, value |-> value, error |-> NoStr, derived |-> TRUE]
Thrown(error, derived) == [ok |-> FALSE, value |-> <<>>, error |-> error, derived |-> derived]

\* validateEncryptionKey for the value key of TEXT_ENCRYPTION_KEY ("" when it is
\* not set): the message of the error it throws, "" when it returns
validateEncryptionKey(key) ==
    IF key = NoStr \/ trim(key) = NoStr
    THEN "TEXT_ENCRYPTION_KEY is not set in environment variables. Please configure it in .env file."
    ELSE IF Len(key) < 32
    THEN "TEXT_ENCRYPTION_KEY must be at least 32 characters long for secure encryption."
    ELSE NoStr

\* encryptText where TEXT_ENCRYPTION_KEY is secret; saltSeed and ivSeed stand for
\* its two crypto.randomBytes draws
encryptTextWith(secret, text, saltSeed, ivSeed) ==
    IF validateEncryptionKey(secret) # NoStr
    THEN Thrown("Failed to encrypt text: " \o validateEncryptionKey(secret), FALSE)
    ELSE IF Len(text) = 0
    THEN Thrown("Failed to encrypt text: Cannot encrypt empty text", FALSE)
    ELSE LET salt == randomBytes(SALT_LENGTH, saltSeed)
             key == deriveKey(salt)
             iv == randomBytes(IV_LENGTH, ivSeed)
             cipher == gcm(key, iv, utf8Encode(text), FALSE)
         IN  Returned(toBase64(salt) \o ":" \o toBase64(iv) \o ":"
                      \o toBase64(cipher.authTag) \o ":" \o toBase64(cipher.data))

\* encryptText of a configured deployment
encryptText(text, saltSeed, ivSeed) == encryptTextWith(ENCRYPTION_KEY, text, saltSeed, ivSeed)

\* decryptText where TEXT_ENCRYPTION_KEY is secret
decryptTextWith(secret, encryptedText) ==
    IF validateEncryptionKey(secret) # NoStr
    THEN Thrown("Failed to decrypt text: " \o validateEncryptionKey(secret), FALSE)
    ELSE IF Len(encryptedText) = 0
    THEN Thrown("Failed to decrypt text: Cannot decrypt empty text", FALSE)
    ELSE LET parts == split(encryptedText, ":") IN
    IF Len(parts) # 4
    THEN Thrown("Failed to decrypt text: Invalid encrypted text format. Data may be corrupted or not properly encrypted.", FALSE)
    ELSE LET salt == fromBase64(parts[1])
             iv == fromBase64(parts[2])
             authTag == fromBase64(parts[3])
         IN
    IF Len(salt) # SALT_LENGTH
    THEN Thrown("Failed to decrypt text: Invalid salt length. Data may be corrupted.", FALSE)
    ELSE IF Len(iv) # IV_LENGTH
    THEN Thrown("Failed to decrypt text: Invalid IV length. Data may be corrupted.", FALSE)
    ELSE IF Len(authTag) # AUTH_TAG_LENGTH
    THEN Thrown("Failed to decrypt text: Invalid auth tag length. Data may be corrupted.", FALSE)
    ELSE LET decipher == gcm(deriveKey(salt), iv, fromBase64(parts[4]), TRUE) IN
    IF decipher.authTag # authTag
    THEN Thrown("Failed to decrypt text: Invalid encryption key or corrupted data", TRUE)
    ELSE Returned(utf8Decode(decipher.data))

\* decryptText of a configured deployment
decryptText(encryptedText) == decryptTextWith(ENCRYPTION_KEY, encryptedText)

\* isEncrypted: four non-empty parts of the shape /^[A-Za-z0-9+/]+=*$/
isEncrypted(text) ==
    LET parts == split(text, ":")
        letter(t, i) == \E k \in 1..64 : SubSeq(Base64Alphabet, k, k) = SubSeq(t, i, i)
        shape(t) == LET m == Cardinality({i \in 1..Len(t) : letter(t, i)})
                    IN  /\ m >= 1
                        /\ \A i \in 1..m : letter(t, i)
                        /\ \A i \in (m + 1)..Len(t) : SubSeq(t, i, i) = "="
    IN  /\ Len(text) > 0
        /\ Len(parts) = 4
        /\ \A i \in 1..4 : shape(parts[i])

\* no envelope at hand yet. envelope: the string at hand; text: the plaintext it
\* was sealed from; drawn: the draws crypto.randomBytes has served; sealed: the
\* envelopes encryptText has returned for text, repeated: one of them was
\* returned twice; damage: what was done to the envelope since; op: the last
\* call, out: what it returned or threw; key: TEXT_ENCRYPTION_KEY of the
\* running process ("" when it is not set)
NoEnvelope == [envelope |-> NoStr, text |-> <<>>, drawn |-> 0, sealed |-> {},
               repeated |-> FALSE, damage |-> "none", op |-> "none", out |-> <<>>,
               key |-> ENCRYPTION_KEY]

Init ==
    /\ store = [s \in ShortIds |-> NoZap]
    /\ blobs = {}
    /\ now = 0
    /\ nextId = 1
    /\ req = [p \in Procs |-> IdleReq]
    /\ sweep = IdleSweep
    /\ served = [i \in ItemIds |-> 0]
    /\ denied = [i \in ItemIds |-> FALSE]
    /\ table = {}
    /\ creq = [p \in Procs |-> IdleCreate]
    /\ env = NoEnvelope
    /\ zapPasswordAttemptStore =
            [k \in {getZapPasswordAttemptKey(c[1], c[2]) : c \in AttemptCallers}
                |-> [count |-> 0, resetAt |-> 0]]
    /\ attempted = [log |-> [c \in AttemptCallers |-> <<>>], by |-> <<>>,
                    out |-> [isBlocked |-> FALSE, retryAfterSeconds |-> 0,
                             attempts |-> 0, max |-> max]]

(* ------------------------------ clock ---------------------------------- *)
Tick ==
    /\ now < MaxTime
    /\ now' = now + 1
    /\ UNCHANGED <<store, blobs, nextId, req, sweep, served, denied, table, creq, env, zapPasswordAttemptStore, attempted>>

(* ------------------------------ creation ------------------------------- *)
\* encryptText(textContent) as createZap stores it
SealedText == encryptText(<<233>>, 1, 2).value

\* an originalUrl of a request body that is not a URL: createZap stores the
\* originalUrl of the body as it comes
LiteralUrl == "TEXT_CONTENT:hello"

\* the secure_url cloudinary answers for an uploaded file
UploadedUrl == "https://res.cloudinary.com/demo/raw/upload/v1712/zaplink_folders/doc.pdf"

\* the decimal digits
Digits == <<"0", "1", "2", "3", "4", "5", "6", "7", "8", "9">>

\* const deletionToken = nanoid(): the 21 characters drawn for the record id
nanoidFor(id) == "V1StGXR8_Z5jdHi6B-my" \o Digits[id + 1]

\* the record prisma.zap.create inserts; kind is what the request carries:
\* a file, a textContent, or (literal) an originalUrl with type "text"
NewZap(id, viewLimit, expiresAt, unlockAt, password, quizAnswer, kind) ==
    [id |-> id,
     viewCount |-> 0,
     viewLimit |-> viewLimit,
     expiresAt |-> expiresAt,
     unlockAt |-> unlockAt,
     passwordHash |-> IF password # NoStr THEN bcryptHash(password) ELSE NoStr,
     quizQuestion |-> IF quizAnswer # NoStr THEN QuizQuestion ELSE NoStr,
     quizAnswerHash |-> IF quizAnswer # NoStr THEN hashQuizAnswer(quizAnswer) ELSE NoStr,
     cloudUrl |-> IF kind = "file" THEN UploadedUrl
                  ELSE IF kind = "literal" THEN LiteralUrl ELSE NoStr,
     originalUrl |-> IF kind = "text" THEN "TEXT_CONTENT:" \o SealedText
                     ELSE IF kind = "literal" THEN LiteralUrl ELSE NoStr,
     deletionToken |-> nanoidFor(id)]

\* createZap: validation, a free shortId, the upload of a file, the insert; a
\* text is inserted only when encryptText returns
createZap(sid, viewLimit, expiresAt, delay, password, quizAnswer, kind) ==
    /\ nextId <= MaxItems
    /\ viewLimit = NULL \/ viewLimit >= 1
    /\ expiresAt = NULL \/ expiresAt > now
    /\ kind = "text" => validateEncryptionKey(env.key) = NoStr
    /\ store[sid] = NoZap
    /\ store' = [store EXCEPT ![sid] =
                    NewZap(nextId, viewLimit, expiresAt,
                           IF delay = 0 THEN NULL ELSE now + delay,
                           password, quizAnswer, kind)]
    /\ blobs' = IF kind = "file" THEN blobs \cup {nextId} ELSE blobs
    /\ nextId' = nextId + 1
    /\ UNCHANGED <<now, req, sweep, served, denied, table, creq, env, zapPasswordAttemptStore, attempted>>

\* the creation requests of the model: Pw the passwords, Quiz the quiz answers
\* ("" is no quiz), Delays the delayedAccessTime values
Create(Pw, Quiz, Delays) ==
    \E sid \in ShortIds, viewLimit \in {NULL} \cup (1..MaxLimit),
       expiresAt \in {NULL, now + 1}, delay \in Delays,
       password \in Pw, quizAnswer \in Quiz, kind \in {"text", "file"} :
        createZap(sid, viewLimit, expiresAt, delay, password, quizAnswer, kind)

CreateAny == Create({NoStr, GoodPassword}, {NoStr, GoodAnswer}, {0, 1})
CreatePlainGated == Create({NoStr, GoodPassword}, {NoStr}, {0})
\* quiz answers as their creators type them
TypedAnswers == {GoodAnswer, " Paris "}
CreateQuiz == Create({NoStr}, TypedAnswers, {0})

(* ------------------------------ responses: classification -------------- *)
\* a response that carries the item's content (JSON body, or a redirect to it)
IsContent(r) == r.status = 200 \/ (r.status = 302 /\ r.message = "content")

\* which denial a response is, by status and message
ExpiredResps == {Resp(410, "Zap has expired."), Resp(410, "This link has expired."),
                 Resp(410, "File has expired"), Resp(302, "error=expired")}
QuotaResps == {Resp(410, "View limit exceeded."), Resp(403, "View limit exceeded."),
               Resp(410, "Zap view limit reached."), Resp(410, "View limit exceeded"),
               Resp(302, "error=viewlimit")}
NotFoundResps == {Resp(404, "Zap not found."), Resp(404, "Zap not found"),
                  Resp(404, "File not found"), Resp(302, "error=notfound")}
LockedResps == {Resp(423, "File is currently locked."), Resp(423, "temporarily locked")}
QuizResps == {Resp(401, "Incorrect quiz answer."), Resp(401, "Quiz verification failed"),
              Resp(423, "quiz_required"), Resp(401, "Incorrect quiz answer. Please try again.")}
PasswordRequiredResps == {Resp(401, "Password required."),
                          Resp(401, "Password required for this file")}
PasswordInvalidResps == {Resp(401, "Invalid password."), Resp(401, "Invalid password"),
                         Resp(401, "Incorrect password.")}
InternalError == Resp(500, "Internal server error")

Outcome(r) ==
    IF IsContent(r) THEN "Consumed"
    ELSE IF r \in NotFoundResps THEN "NotFound"
    ELSE IF r \in ExpiredResps THEN "Expired"
    ELSE IF r \in QuotaResps THEN "QuotaExhausted"
    ELSE IF r \in LockedResps THEN "Locked"
    ELSE IF r \in QuizResps THEN "QuizFailed"
    ELSE IF r \in PasswordRequiredResps THEN "PasswordRequired"
    ELSE IF r \in PasswordInvalidResps THEN "PasswordInvalid"
    ELSE "Error"

GateDenials == {"NotFound", "Expired", "QuotaExhausted", "Locked", "QuizFailed",
                "PasswordRequired", "PasswordInvalid"}

(* ------------------------------ request plumbing ----------------------- *)
\* res.status(..).json(..) / res.redirect(..): the response r ends the request;
\* about is the id of the record r speaks of (0 when there is none)
Reply(p, r, effects, about) ==
    /\ req' = [req EXCEPT ![p].pc = "done",
                          ![p].resp = Append(@, r),
                          ![p].effects = @ \cup effects]
    /\ served' = IF IsContent(r) /\ about # 0
                 THEN [served EXCEPT ![about] = @ + 1] ELSE served
    /\ denied' = IF Outcome(r) \in {"Expired", "QuotaExhausted"} /\ about # 0
                 THEN [denied EXCEPT ![about] = TRUE] ELSE denied

\* the handler is entered with the request's query parameters and its first
\* await, prisma.zap.findUnique({shortId}), reads the row
StartResolve(p, h, sid, password, quizAnswer) ==
    /\ req[p].pc = "idle"
    /\ store[sid].viewCount < MaxViews
    /\ req' = [req EXCEPT ![p] =
                [IdleReq EXCEPT !.pc = "gates", !.handler = h, !.shortId = sid,
                                !.password = password, !.quizAnswer = quizAnswer,
                                !.zap = store[sid],
                                !.expiredAtStart = (store[sid].expiresAt # NULL
                                                    /\ store[sid].expiresAt < now),
                                !.afterDenial = (store[sid] # NoZap /\ denied[store[sid].id])]]
    /\ UNCHANGED <<store, blobs, now, nextId, sweep, served, denied, table, creq, env, zapPasswordAttemptStore, attempted>>

\* the request context ends
Retire(p) ==
    /\ req[p].pc = "done"
    /\ req' = [req EXCEPT ![p] = IdleReq]
    /\ UNCHANGED <<store, blobs, now, nextId, sweep, served, denied, table, creq, env, zapPasswordAttemptStore, attempted>>

(* ------------------------------ the gates, per version ----------------- *)
\* a faulty variant of gatesTx: the expiry comparison is turned around
gatesTxExpiryReversed(zap, password, quizAnswer, t) ==
    IF zap = NoZap THEN Resp(404, "Zap not found.")
    ELSE IF zap.expiresAt # NULL /\ t < zap.expiresAt THEN Resp(410, "Zap has expired.")
    ELSE IF zap.viewLimit # NULL /\ zap.viewCount >= zap.viewLimit
        THEN Resp(410, "View limit exceeded.")
    ELSE IF zap.unlockAt # NULL /\ t < zap.unlockAt THEN Resp(423, "File is currently locked.")
    ELSE IF hasQuizProtection(zap)
            /\ (quizAnswer = NoStr \/ ~verifyQuizAnswer(quizAnswer, zap.quizAnswerHash))
        THEN Resp(401, "Incorrect quiz answer.")
    ELSE IF zap.passwordHash # NoStr
            /\ (password = NoStr \/ ~verifyZapPassword(password, zap.passwordHash))
        THEN Resp(401, "Invalid password.")
    ELSE Allowed

\* getZapByShortId with the transaction
gatesTx(zap, password, quizAnswer, t) ==
    IF zap = NoZap THEN Resp(404, "Zap not found.")
    ELSE IF zap.expiresAt # NULL /\ t > zap.expiresAt THEN Resp(410, "Zap has expired.")
    ELSE IF zap.viewLimit # NULL /\ zap.viewCount >= zap.viewLimit
        THEN Resp(410, "View limit exceeded.")
    ELSE IF zap.unlockAt # NULL /\ t < zap.unlockAt THEN Resp(423, "File is currently locked.")
    ELSE IF hasQuizProtection(zap)
            /\ (quizAnswer = NoStr \/ ~verifyQuizAnswer(quizAnswer, zap.quizAnswerHash))
        THEN Resp(401, "Incorrect quiz answer.")
    ELSE IF zap.passwordHash # NoStr
            /\ (password = NoStr \/ ~verifyZapPassword(password, zap.passwordHash))
        THEN Resp(401, "Invalid password.")
    ELSE Allowed

\* getZapByShortId with the raw conditional UPDATE
gatesRaw(zap, password, quizAnswer, t) ==
    IF zap = NoZap THEN Resp(404, "Zap not found.")
    ELSE IF zap.expiresAt # NULL /\ t > zap.expiresAt THEN Resp(410, "This link has expired.")
    ELSE IF zap.viewLimit # NULL /\ zap.viewCount >= zap.viewLimit
        THEN Resp(403, "View limit exceeded.")
    ELSE IF zap.passwordHash # NoStr /\ password = NoStr THEN Resp(401, "Password required.")
    ELSE IF zap.passwordHash # NoStr /\ ~bcryptCompare(password, zap.passwordHash)
        THEN Resp(401, "Incorrect password.")
    ELSE Allowed

\* the first getZapByShortId of zap.controller.ts: password, then quiz
gatesV1(zap, password, quizAnswer, t) ==
    IF zap = NoZap THEN Resp(404, "Zap not found")
    ELSE IF zap.passwordHash # NoStr
            /\ (password = NoStr \/ ~bcryptCompare(password, zap.passwordHash))
        THEN Resp(401, "Invalid password")
    ELSE IF hasQuizProtection(zap)
            /\ (quizAnswer = NoStr \/ ~verifyQuizAnswer(quizAnswer, zap.quizAnswerHash))
        THEN Resp(401, "Quiz verification failed")
    ELSE Allowed

\* the second getZapByShortId of zap.controller.ts: an item without a quiz is refused
gatesQuizOnly(zap, password, quizAnswer, t) ==
    IF zap = NoZap THEN Resp(404, "Zap not found.")
    ELSE IF zap.quizQuestion = NoStr \/ zap.quizAnswerHash = NoStr
        THEN Resp(400, "This Zap does not have quiz protection.")
    ELSE IF zap.unlockAt # NULL /\ t < zap.unlockAt THEN Resp(423, "File is currently locked.")
    ELSE IF hasQuizProtection(zap)
            /\ (quizAnswer = NoStr \/ ~verifyQuizAnswer(quizAnswer, zap.quizAnswerHash))
        THEN Resp(401, "Incorrect quiz answer.")
    ELSE IF zap.passwordHash # NoStr
            /\ (password = NoStr \/ ~verifyZapPassword(password, zap.passwordHash))
        THEN Resp(401, "Invalid password.")
    ELSE Allowed

\* the last getZapByShortId of zap.controller.ts (JSON client): an expired or
\* over-quota item is answered with a redirect after it has been purged
gatesDouble(zap, password, quizAnswer, t) ==
    IF zap = NoZap THEN Resp(404, "Zap not found.")
    ELSE IF zap.expiresAt # NULL /\ t > zap.expiresAt THEN Resp(302, "error=expired")
    ELSE IF zap.viewLimit # NULL /\ zap.viewCount >= zap.viewLimit
        THEN Resp(302, "error=viewlimit")
    ELSE IF zap.unlockAt # NULL /\ t < zap.unlockAt THEN Resp(423, "temporarily locked")
    ELSE IF hasQuizProtection(zap) /\ quizAnswer = NoStr THEN Resp(423, "quiz_required")
    ELSE IF hasQuizProtection(zap) /\ ~verifyQuizAnswer(quizAnswer, zap.quizAnswerHash)
        THEN Resp(401, "Incorrect quiz answer. Please try again.")
    ELSE IF zap.passwordHash # NoStr /\ password = NoStr THEN Resp(401, "Password required.")
    ELSE IF zap.passwordHash # NoStr /\ ~bcryptCompare(password, zap.passwordHash)
        THEN Resp(401, "Incorrect password.")
    ELSE Allowed

\* the second getZapByShortId of part_003: no expiry gate, no quota gate
gatesPlain(zap, password, quizAnswer, t) ==
    IF zap = NoZap THEN Resp(404, "Zap not found.")
    ELSE IF zap.unlockAt # NULL /\ t < zap.unlockAt THEN Resp(423, "File is currently locked.")
    ELSE IF hasQuizProtection(zap)
            /\ (quizAnswer = NoStr \/ ~verifyQuizAnswer(quizAnswer, zap.quizAnswerHash))
        THEN Resp(401, "Incorrect quiz answer.")
    ELSE IF zap.passwordHash # NoStr
            /\ (password = NoStr \/ ~verifyZapPassword(password, zap.passwordHash))
        THEN Resp(401, "Invalid password.")
    ELSE Allowed

\* FileController.getFile
gatesGetFile(zap, password, quizAnswer, t) ==
    IF zap = NoZap THEN Resp(404, "File not found")
    ELSE IF zap.expiresAt # NULL /\ t > zap.expiresAt THEN Resp(410, "File has expired")
    ELSE IF zap.viewLimit # NULL /\ zap.viewCount >= zap.viewLimit
        THEN Resp(410, "View limit exceeded")
    ELSE IF zap.passwordHash # NoStr /\ password = NoStr
        THEN Resp(401, "Password required for this file")
    ELSE IF zap.passwordHash # NoStr /\ ~bcryptCompare(password, zap.passwordHash)
        THEN Resp(401, "Invalid password")
    ELSE Allowed

GateResp(h, zap, password, quizAnswer, t) ==
    CASE h = "tx" -> gatesTx(zap, password, quizAnswer, t)
      [] h = "raw" -> gatesRaw(zap, password, quizAnswer, t)
      [] h = "v1" -> gatesV1(zap, password, quizAnswer, t)
      [] h = "quizOnly" -> gatesQuizOnly(zap, password, quizAnswer, t)
      [] h = "double" -> gatesDouble(zap, password, quizAnswer, t)
      [] h = "plain" -> gatesPlain(zap, password, quizAnswer, t)
      [] h = "getFile" -> gatesGetFile(zap, password, quizAnswer, t)

\* where an admitted request goes next
AfterGates(h) == IF h = "tx" THEN "txFind" ELSE "update"

\* the continuation of findUnique: every gate up to the first one that fails
Gates(p) ==
    /\ req[p].pc = "gates"
    /\ LET r == GateResp(req[p].handler, req[p].zap, req[p].password, req[p].quizAnswer, now)
           q == req[p]
       IN  IF r = Allowed
           THEN /\ req' = [req EXCEPT ![p] = [q EXCEPT !.pc = AfterGates(req[p].handler)]]
                /\ UNCHANGED <<served, denied>>
           ELSE IF req[p].handler = "double" /\ Outcome(r) \in {"Expired", "QuotaExhausted"}
           THEN /\ req' = [req EXCEPT ![p] = [q EXCEPT !.pc = "purge", !.pending = r]]
                /\ UNCHANGED <<served, denied>>
           ELSE /\ req' = [req EXCEPT ![p] = [q EXCEPT !.pc = "done", !.resp = <<r>>]]
                /\ served' = served
                /\ denied' = IF Outcome(r) \in {"Expired", "QuotaExhausted"}
                             THEN [denied EXCEPT ![req[p].zap.id] = TRUE] ELSE denied
    /\ UNCHANGED <<store, blobs, now, nextId, sweep, table, creq, env, zapPasswordAttemptStore, attempted>>

(* ------------------------------ store operations ----------------------- *)
\* UPDATE "Zap" SET "viewCount" = "viewCount" + 1 WHERE "shortId" = sid
\* (prisma update with {increment: 1}); the caller has checked the row exists
incrementViewCount(sid) == [store EXCEPT ![sid].viewCount = @ + 1]

\* prisma update with data {viewCount: n}: an absolute write
writeViewCount(sid, n) == [store EXCEPT ![sid].viewCount = n]

\* the WHERE clause of the raw conditional UPDATE
underQuota(row) == row.viewLimit = NULL \/ row.viewCount < row.viewLimit

\* a sealed text that storage has damaged: its ciphertext lost its last bytes
CorruptedText == SubSeq(SealedText, 1, Len(SealedText) - 4)

\* decryptText(SealedText) of a configured deployment
OpenedSealedText == decryptText(SealedText)

\* what the content branch of the handler sends for a record where
\* TEXT_ENCRYPTION_KEY is key: a redirect for a link, the decrypted inline text
\* or document, the file; an error of decryptText is answered 500 by the catch
\* around the call. No record of the model holds a data: URL
deliver(key, zap) ==
    LET url == zap.originalUrl
        startsWith(prefix) == Len(url) >= Len(prefix) /\ SubSeq(url, 1, Len(prefix)) = prefix
        encryptedContent == SubSeq(url, 14, Len(url))
        opened == IF key = ENCRYPTION_KEY /\ encryptedContent = SealedText
                  THEN OpenedSealedText
                  ELSE decryptTextWith(key, encryptedContent)
    IN  IF url # NoStr
        THEN IF startsWith("http://") \/ startsWith("https://") THEN Resp(200, "redirect")
             ELSE IF startsWith("TEXT_CONTENT:")
             THEN (IF opened.ok THEN Resp(200, "text")
                   ELSE Resp(500, "Failed to retrieve text content. Data may be corrupted."))
             ELSE IF startsWith("DOCX_CONTENT:") \/ startsWith("PPTX_CONTENT:")
             THEN (IF opened.ok THEN Resp(200, "document")
                   ELSE Resp(500, "Failed to retrieve document content. Data may be corrupted."))
             ELSE Resp(400, "Invalid base64 image data")
        ELSE IF zap.cloudUrl # NoStr THEN Resp(200, "file")
        ELSE Resp(500, "Zap content not found.")

(* ------------------------------ getZapByShortId, transaction ----------- *)
\* inside prisma.$transaction: tx.zap.findUnique and the check on what it read.
\* No isolation level is passed, so the transaction runs at PostgreSQL's default,
\* READ COMMITTED: the read takes no lock.
TxFind(p) ==
    /\ req[p].pc = "txFind"
    /\ LET currentZap == store[req[p].shortId] IN
        IF currentZap = NoZap
        THEN Reply(p, Resp(404, "Zap not found."), {}, 0)
        ELSE IF currentZap.viewLimit # NULL /\ currentZap.viewCount >= currentZap.viewLimit
        THEN Reply(p, Resp(410, "View limit exceeded."), {}, currentZap.id)
        ELSE /\ req' = [req EXCEPT ![p].pc = "txUpdate"]
             /\ UNCHANGED <<served, denied>>
    /\ UNCHANGED <<store, blobs, now, nextId, sweep, table, creq, env, zapPasswordAttemptStore, attempted>>

\* tx.zap.update({increment: 1}), the commit and res.json(updatedZap); the update
\* of a row that is gone throws P2025, which the handler answers with 500
TxUpdate(p) ==
    /\ req[p].pc = "txUpdate"
    /\ IF store[req[p].shortId] = NoZap
       THEN /\ Reply(p, InternalError, {}, 0)
            /\ store' = store
       ELSE /\ store' = incrementViewCount(req[p].shortId)
            /\ Reply(p, Resp(200, "Success"), {"increment"}, store[req[p].shortId].id)
    /\ UNCHANGED <<blobs, now, nextId, sweep, table, creq, env, zapPasswordAttemptStore, attempted>>

(* ------------------------------ getZapByShortId, raw UPDATE ------------ *)
\* one statement: increment where the row exists and is under quota; no row
\* updated is answered 410
RawUpdate(p) ==
    /\ req[p].pc = "update"
    /\ req[p].handler = "raw"
    /\ LET row == store[req[p].shortId] IN
        IF row # NoZap /\ underQuota(row)
        THEN /\ store' = incrementViewCount(req[p].shortId)
             /\ Reply(p, deliver(env.key, req[p].zap), {"increment"}, req[p].zap.id)
        ELSE /\ store' = store
             /\ Reply(p, Resp(410, "Zap view limit reached."), {}, req[p].zap.id)
    /\ UNCHANGED <<blobs, now, nextId, sweep, table, creq, env, zapPasswordAttemptStore, attempted>>

(* ------------------------------ getZapByShortId, first version --------- *)
\* prisma update with data {viewCount: zap.viewCount + 1}: the count read at
\* the start of the request, plus one
V1Update(p) ==
    /\ req[p].pc = "update"
    /\ req[p].handler = "v1"
    /\ IF store[req[p].shortId] = NoZap
       THEN /\ Reply(p, InternalError, {}, 0)
            /\ store' = store
       ELSE /\ store' = writeViewCount(req[p].shortId, req[p].zap.viewCount + 1)
            /\ Reply(p, IF req[p].zap.originalUrl # NoStr THEN Resp(200, "text")
                        ELSE IF req[p].zap.cloudUrl # NoStr THEN Resp(302, "content")
                        ELSE Resp(500, "Zap content missing"), {"increment"}, req[p].zap.id)
    /\ UNCHANGED <<blobs, now, nextId, sweep, table, creq, env, zapPasswordAttemptStore, attempted>>

(* ------------------------------ getZapByShortId, quiz-only and plain --- *)
\* prisma update {increment: 1} on whatever the row holds, then res.json(zap).
\* The quiz-only version goes on to a second res.status(200).json(...): the
\* headers are sent, so it throws ERR_HTTP_HEADERS_SENT into the catch, whose
\* res.status(500).json(...) throws the same error out of the handler
PlainUpdate(p) ==
    /\ req[p].pc = "update"
    /\ req[p].handler \in {"quizOnly", "plain"}
    /\ IF store[req[p].shortId] = NoZap
       THEN /\ Reply(p, InternalError, {}, 0)
            /\ store' = store
       ELSE /\ store' = incrementViewCount(req[p].shortId)
            /\ Reply(p, Resp(200, "Success"),
                     IF req[p].handler = "quizOnly"
                     THEN {"increment", "ERR_HTTP_HEADERS_SENT"} ELSE {"increment"},
                     store[req[p].shortId].id)
    /\ UNCHANGED <<blobs, now, nextId, sweep, table, creq, env, zapPasswordAttemptStore, attempted>>

(* ------------------------------ getZapByShortId, last version ---------- *)
\* an expired or over-quota record: deleteFromCloudinary(zap.cloudUrl), then
\* prisma.zap.delete({id}), then the redirect; the delete of a row that is gone
\* throws P2025 (500)
Purge(p) ==
    /\ req[p].pc = "purge"
    /\ LET zap == req[p].zap
           sid == req[p].shortId
           released == IF zap.cloudUrl # NoStr THEN {"release"} ELSE {} IN
        /\ blobs' = IF zap.cloudUrl # NoStr THEN blobs \ {zap.id} ELSE blobs
        /\ IF store[sid] # NoZap /\ store[sid].id = zap.id
           THEN /\ store' = [store EXCEPT ![sid] = NoZap]
                /\ Reply(p, req[p].pending, released \cup {"delete"}, zap.id)
           ELSE /\ store' = store
                /\ Reply(p, InternalError, released, 0)
    /\ UNCHANGED <<now, nextId, sweep, table, creq, env, zapPasswordAttemptStore, attempted>>

\* prisma update with data {viewCount: zap.viewCount + 1}
DoubleUpdate1(p) ==
    /\ req[p].pc = "update"
    /\ req[p].handler = "double"
    /\ IF store[req[p].shortId] = NoZap
       THEN /\ Reply(p, InternalError, {}, 0)
            /\ store' = store
       ELSE /\ store' = writeViewCount(req[p].shortId, req[p].zap.viewCount + 1)
            /\ req' = [req EXCEPT ![p].pc = "update2", ![p].effects = @ \cup {"increment"}]
            /\ UNCHANGED <<served, denied>>
    /\ UNCHANGED <<blobs, now, nextId, sweep, table, creq, env, zapPasswordAttemptStore, attempted>>

\* then the raw conditional UPDATE
DoubleUpdate2(p) ==
    /\ req[p].pc = "update2"
    /\ LET row == store[req[p].shortId] IN
        IF row # NoZap /\ underQuota(row)
        THEN /\ store' = incrementViewCount(req[p].shortId)
             /\ Reply(p, deliver(env.key, req[p].zap), {"increment"}, req[p].zap.id)
        ELSE /\ store' = store
             /\ Reply(p, Resp(410, "Zap view limit reached."), {}, req[p].zap.id)
    /\ UNCHANGED <<blobs, now, nextId, sweep, table, creq, env, zapPasswordAttemptStore, attempted>>

(* ------------------------------ FileController.getFile ----------------- *)
\* prisma update {increment: 1}, then the check of the count it returned
GetFileUpdate(p) ==
    /\ req[p].pc = "update"
    /\ req[p].handler = "getFile"
    /\ LET sid == req[p].shortId IN
        IF store[sid] = NoZap
        THEN /\ Reply(p, InternalError, {}, 0)
             /\ store' = store
        ELSE LET updatedZap == incrementViewCount(sid)[sid] IN
             /\ store' = incrementViewCount(sid)
             /\ Reply(p, IF updatedZap.viewLimit # NULL
                            /\ updatedZap.viewCount > updatedZap.viewLimit
                         THEN Resp(410, "View limit exceeded")
                         ELSE Resp(200, "File retrieved successfully"), {"increment"},
                      updatedZap.id)
    /\ UNCHANGED <<blobs, now, nextId, sweep, table, creq, env, zapPasswordAttemptStore, attempted>>

(* ------------------------------ getZapMetadata, validateFileAccess ----- *)
\* a response or result that carries a quizQuestion field
MetaResp(status, message, quizQuestion) ==
    [status |-> status, message |-> message, quizQuestion |-> quizQuestion]

\* getZapMetadata of part_003: the question of any record that exists
metadataPlain(zap, t) ==
    IF zap = NoZap THEN Resp(404, "Not found")
    ELSE MetaResp(200, "Success", zap.quizQuestion)

\* getZapMetadata of zap.controller.ts: expiry and quota first
metadataFull(zap, t) ==
    IF zap = NoZap THEN Resp(404, "Zap not found.")
    ELSE IF zap.expiresAt # NULL /\ t > zap.expiresAt THEN Resp(410, "This Zap has expired.")
    ELSE IF zap.viewLimit # NULL /\ zap.viewLimit # 0 /\ zap.viewCount >= zap.viewLimit
        THEN Resp(410, "View limit for this Zap has been exceeded.")
    ELSE MetaResp(200, "Zap metadata retrieved successfully.", zap.quizQuestion)

checkDelayedAccess(zap, t) == zap.unlockAt # NULL /\ t < zap.unlockAt

\* validateFileAccess: the result's reason and its quizQuestion
validateFileAccess(zap, quizAnswered, t) ==
    LET quizLocked == hasQuizProtection(zap) /\ ~quizAnswered
        delayedLocked == checkDelayedAccess(zap, t)
    IN  IF quizLocked /\ delayedLocked THEN MetaResp(0, "both_locked", zap.quizQuestion)
        ELSE IF quizLocked THEN MetaResp(0, "quiz_required", zap.quizQuestion)
        ELSE IF delayedLocked THEN Resp(0, "delayed_access_locked")
        ELSE Allowed

MetaHandlers == {"metadataPlain", "metadataFull", "validate"}

\* a faulty variant of Describe: the call counts as a view
DescribeCounting(p) ==
    /\ req[p].pc = "gates"
    /\ req[p].handler \in MetaHandlers
    /\ req' = [req EXCEPT ![p].pc = "done", ![p].resp = <<InternalError>>]
    /\ store' = [s \in ShortIds |-> IF store[s] = NoZap THEN NoZap
                                     ELSE [store[s] EXCEPT !.viewCount = @ + 1]]
    /\ UNCHANGED <<blobs, now, nextId, sweep, served, denied, table, creq, env, zapPasswordAttemptStore, attempted>>

\* the continuation of findUnique in getZapMetadata; for "validate", the call
\* of validateFileAccess on the record read, quizAnswered = whether an answer came
Describe(p) ==
    /\ req[p].pc = "gates"
    /\ req[p].handler \in MetaHandlers
    /\ LET zap == req[p].zap
           r == CASE req[p].handler = "metadataPlain" -> metadataPlain(zap, now)
                  [] req[p].handler = "metadataFull" -> metadataFull(zap, now)
                  [] req[p].handler = "validate" ->
                        validateFileAccess(zap, req[p].quizAnswer # NoStr, now)
       IN  req' = [req EXCEPT ![p].pc = "done", ![p].resp = <<r>>]
    /\ UNCHANGED <<store, blobs, now, nextId, sweep, served, denied, table, creq, env, zapPasswordAttemptStore, attempted>>

(* ------------------------------ getZapAnalytics ------------------------ *)
\* createZap of zap.controller.ts:214, whose insert writes no deletionToken
CreateUntokened ==
    /\ nextId <= MaxItems
    /\ \E sid \in ShortIds, expiresAt \in {NULL, now + 1} :
        /\ store[sid] = NoZap
        /\ store' = [store EXCEPT ![sid] =
                        [NewZap(nextId, NULL, expiresAt, NULL, NoStr, NoStr, "file")
                            EXCEPT !.deletionToken = NoStr]]
    /\ blobs' = blobs \cup {nextId}
    /\ nextId' = nextId + 1
    /\ UNCHANGED <<now, req, sweep, served, denied, table, creq, env, zapPasswordAttemptStore, attempted>>

\* a faulty variant of authorized: any token of a stored item is accepted
authorizedAnyToken(zap, token) == TRUE

\* the authorization test of getZapAnalytics
authorized(zap, token) == zap.deletionToken # NoStr /\ token = zap.deletionToken

\* getZapAnalytics up to its second await, for the tokens callers send as
\* ?token= ("" is none): the token must be there, findUnique
\* must find the row, the token must be the row's (the dash of the 403 message
\* is written "-")
AnalyticsStart(p) ==
    /\ req[p].pc = "idle"
    /\ \E sid \in ShortIds,
          token \in {NoStr, "not-the-token"} \cup {nanoidFor(id) : id \in ItemIds} :
        LET zap == store[sid]
            q == [IdleReq EXCEPT !.handler = "analytics", !.shortId = sid, !.token = token,
                                 !.zap = IF token = NoStr THEN NoZap ELSE zap]
        IN  req' = [req EXCEPT ![p] =
                IF token = NoStr
                THEN [q EXCEPT !.pc = "done", !.resp = <<Resp(401,
                        "Authorization required. Provide your deletionToken as ?token=<value>.")>>]
                ELSE IF zap = NoZap
                THEN [q EXCEPT !.pc = "done", !.resp = <<Resp(404, "Zap not found.")>>]
                ELSE IF ~authorized(zap, token)
                THEN [q EXCEPT !.pc = "done", !.resp = <<Resp(403,
                        "Forbidden. Invalid token - you are not authorized to view analytics for this Zap.")>>]
                ELSE [q EXCEPT !.pc = "analytics"]]
    /\ UNCHANGED <<store, blobs, now, nextId, sweep, served, denied, table, creq, env, zapPasswordAttemptStore, attempted>>

\* getAnalytics(zap.id): null when the row of that id is gone
AnalyticsFetch(p) ==
    /\ req[p].pc = "analytics"
    /\ LET row == store[req[p].shortId] IN
        req' = [req EXCEPT ![p].pc = "done",
                           ![p].resp = IF row = NoZap \/ row.id # req[p].zap.id
                                       THEN <<Resp(404, "Analytics data not found.")>>
                                       ELSE <<Resp(200, "Analytics retrieved successfully.")>>]
    /\ UNCHANGED <<store, blobs, now, nextId, sweep, served, denied, table, creq, env, zapPasswordAttemptStore, attempted>>

(* ------------------------------ password attempts, registered --------- *)
\* a caller's wrong password is registered at the present instant
RegisterAttempt ==
    /\ Cardinality(UNION {{<<c, i>> : i \in 1..Len(attempted.log[c])} : c \in AttemptCallers})
            < MaxAttempts
    /\ \E c \in AttemptCallers :
        LET r == registerInvalidZapPasswordAttempt(zapPasswordAttemptStore, c[1], c[2], now) IN
        /\ zapPasswordAttemptStore' = r.store
        /\ attempted' = [log |-> [attempted.log EXCEPT ![c] = Append(@, now)],
                         by |-> c, out |-> r.result]
    /\ UNCHANGED <<store, blobs, now, nextId, req, sweep, served, denied, table, creq, env>>

\* a caller's right password clears its counter
ClearAttempts ==
    /\ \E c \in AttemptCallers :
        /\ zapPasswordAttemptStore' =
                clearZapPasswordAttemptCounter(zapPasswordAttemptStore, c[1], c[2])
        /\ attempted' = [attempted EXCEPT !.log[c] = <<>>, !.by = <<>>]
    /\ UNCHANGED <<store, blobs, now, nextId, req, sweep, served, denied, table, creq, env>>

(* ------------------------------ the sweep ------------------------------ *)
\* cleanupTask starts. deleteExpiredZaps: findMany({expiresAt: {lt: now}}); with
\* rows found it calls destroyZap, does not await it, and returns
SweepFindExpired ==
    /\ sweep.pc = "idle"
    /\ LET found == {s \in ShortIds : store[s] # NoZap /\ store[s].expiresAt # NULL
                                      /\ store[s].expiresAt < now}
           over == {store[s].id : s \in {t \in ShortIds : store[t] # NoZap /\ ~underQuota(store[t])}}
       IN
        sweep' = IF found = {} THEN [IdleSweep EXCEPT !.pc = "overLimit", !.over = over]
                 ELSE [IdleSweep EXCEPT !.pc = "destroyExpired", !.found = found,
                                        !.over = over]
    /\ UNCHANGED <<store, blobs, now, nextId, req, served, denied, table, creq, env, zapPasswordAttemptStore, attempted>>

\* destroyZap: deleteMany({shortId: {in: shortIds}})
destroyZap(shortIds) == [s \in ShortIds |-> IF s \in shortIds THEN NoZap ELSE store[s]]

\* the deleteMany of a destroyZap call that nothing awaits reaches the store
SweepDestroy ==
    /\ sweep.pc \in {"destroyExpired", "destroyOver"}
    /\ store' = destroyZap(sweep.found)
    /\ sweep' = [sweep EXCEPT !.pc = IF sweep.pc = "destroyExpired" THEN "overLimit"
                                     ELSE "idle",
                              !.found = {}]
    /\ UNCHANGED <<blobs, now, nextId, req, served, denied, table, creq, env, zapPasswordAttemptStore, attempted>>

\* deleteOverLimitZaps: the rows with a limit and viewCount >= limit; with rows
\* found it calls destroyZap, does not await it, and returns: cleanupTask is
\* over, in "destroyOver" with the deleteMany still to reach the store
SweepFindOverLimit ==
    /\ sweep.pc = "overLimit"
    /\ LET found == {s \in ShortIds : store[s] # NoZap /\ store[s].viewLimit # NULL
                                      /\ store[s].viewCount >= store[s].viewLimit} IN
        sweep' = IF found = {} THEN [sweep EXCEPT !.pc = "idle"]
                 ELSE [sweep EXCEPT !.pc = "destroyOver", !.found = found]
    /\ UNCHANGED <<store, blobs, now, nextId, req, served, denied, table, creq, env, zapPasswordAttemptStore, attempted>>

(* ------------------------------ creation, step by step ----------------- *)
\* generateUniqueId's default maxRetries
maxRetries == 5

\* a faulty variant of uniqueViolation: a table without the unique indexes
uniqueViolationNoIndex(rows, row) == FALSE

\* the unique indexes Zap_shortId_key and Zap_qrId_key reject the row
uniqueViolation(rows, row) ==
    \E r \in rows : r.shortId = row.shortId \/ r.qrId = row.qrId

\* prisma.zap.findUnique({where: {[fieldName]: id}}) finds a row
existingZap(rows, fieldName, id) == \E r \in rows : r[fieldName] = id

\* a faulty variant of exhausted: the loop stops one attempt early
exhaustedEarly(attempt) == attempt + 1 >= maxRetries

\* the loop of generateUniqueId has used its last attempt
exhausted(attempt) == attempt >= maxRetries

\* a faulty variant of unavailableResp: the error falls through to the generic 500
unavailableRespGeneric(fieldName) == InternalError

\* the error generateUniqueId throws, as createZap answers it
unavailableResp(fieldName) ==
    Resp(503, "Failed to generate unique " \o fieldName \o " after 5 attempts. Service temporarily unavailable.")

\* a faulty variant of conflictResp: P2002 is not told apart from other errors
conflictRespGeneric == InternalError

\* createZap's catch: P2002 is answered 409
conflictResp == Resp(409, "Resource with this ID already exists. Please try again.")

CreateVersions == {"checked", "unchecked", "shorten"}

\* a faulty variant of rejectedResp: the catch swallows the error
rejectedRespSwallowed(version) == Resp(201, "Zap created.")

\* how each handler's catch answers the P2002 of the insert
rejectedResp(version) ==
    CASE version = "checked" -> conflictResp
      [] version = "shorten" ->
            Resp(409, "A resource with this identifier already exists. Please try again.")
      [] version = "unchecked" -> InternalError

\* the body fails the first validation of the handler
missingContentResp(version) ==
    CASE version = "checked" -> Resp(400, "Provide a file, URL, or text.")
      [] version = "unchecked" -> Resp(400, "File, URL, or text is required.")
      [] version = "shorten" -> Resp(400, "URL is required.")

\* Date.prototype.toISOString of the instant t seconds after the epoch
toISOString(t) == "1970-01-01T00:00:0" \o Digits[t + 1] \o ".000Z"

\* the instants the ISO strings of the model denote
IsoTimes == 0..(Len(Digits) - 1)

\* new Date("not-a-date"): getTime() is NaN
InvalidDate == [valid |-> FALSE, time |-> 0]

\* new Date(value) of a string: the instant it denotes, or an invalid date
newDate(value) ==
    IF \E t \in IsoTimes : toISOString(t) = value
    THEN [valid |-> TRUE, time |-> CHOOSE t \in IsoTimes : toISOString(t) = value]
    ELSE InvalidDate

\* the validation of expiresAt in each createZap; NoResp when it passes
expiresAtResp(version, expiresAt, t) ==
    IF expiresAt = NoStr THEN NoResp
    ELSE IF ~newDate(expiresAt).valid
    THEN (IF version = "checked" THEN Resp(400, "Invalid expiresAt format.")
          ELSE Resp(400, "expiresAt must be a valid date string."))
    ELSE IF version = "checked" /\ newDate(expiresAt).time <= t
    THEN Resp(400, "expiresAt must be a future timestamp.")
    ELSE NoResp

\* entry of createZap (version "checked": part_003; "unchecked": zap.controller.ts)
\* or of shortenUrl: validation, then either the first generateUniqueId or two
\* unchecked nanoid() draws; expiresAt is the string of the request body
CreateBeginDated(p, version, hasContent, expiresAt) ==
    /\ creq[p].pc = "idle"
    /\ LET parsedExpiresAt == IF expiresAt = NoStr THEN NULL ELSE newDate(expiresAt).time
       IN
       IF ~hasContent
       THEN creq' = [creq EXCEPT ![p] = [IdleCreate EXCEPT !.pc = "done", !.version = version,
                                            !.resp = <<missingContentResp(version)>>]]
       ELSE IF expiresAtResp(version, expiresAt, now) # NoResp
       THEN creq' = [creq EXCEPT ![p] = [IdleCreate EXCEPT !.pc = "done", !.version = version,
                                            !.resp = <<expiresAtResp(version, expiresAt, now)>>]]
       ELSE IF version = "checked"
       THEN creq' = [creq EXCEPT ![p] = [IdleCreate EXCEPT !.pc = "shortId", !.version = version,
                                            !.attempt = 1, !.allocs = {"shortId"},
                                            !.expiresAt = parsedExpiresAt]]
       ELSE \E sid \in Candidates, qid \in Candidates :
              creq' = [creq EXCEPT ![p] = [IdleCreate EXCEPT !.pc = "insert", !.version = version,
                                              !.shortId = sid, !.qrId = qid,
                                              !.expiresAt = parsedExpiresAt]]
    /\ UNCHANGED <<store, blobs, now, nextId, req, sweep, served, denied, table, env, zapPasswordAttemptStore, attempted>>

\* a creation request that carries no expiresAt
CreateBegin(p, version, hasContent) == CreateBeginDated(p, version, hasContent, NoStr)

\* one turn of generateUniqueId's loop: nanoid(), findUnique, return or retry or
\* throw; creq[p].pc is the fieldName
GenerateUniqueId(p) ==
    /\ creq[p].pc \in {"shortId", "qrId"}
    /\ \E id \in Candidates :
        LET fieldName == creq[p].pc
            found == existingZap(table, fieldName, id)
            q == [creq[p] EXCEPT !.checks = @ + 1,
                                 !.collisions = @ + (IF found THEN 1 ELSE 0)]
            returned == [creq[p] EXCEPT !.checks = 0, !.collisions = 0]
        IN  IF ~found
            THEN creq' = [creq EXCEPT ![p] =
                            IF fieldName = "shortId"
                            THEN [returned EXCEPT !.shortId = id, !.pc = "qrId", !.attempt = 1,
                                                  !.allocs = @ \cup {"qrId"}]
                            ELSE [returned EXCEPT !.qrId = id, !.pc = "insert", !.attempt = 0]]
            ELSE IF exhausted(creq[p].attempt)
            THEN creq' = [creq EXCEPT ![p] =
                            [q EXCEPT !.pc = "done", !.resp = <<unavailableResp(fieldName)>>]]
            ELSE creq' = [creq EXCEPT ![p] = [q EXCEPT !.attempt = @ + 1]]
    /\ UNCHANGED <<store, blobs, now, nextId, req, sweep, served, denied, table, env, zapPasswordAttemptStore, attempted>>

\* the request carries a file: cloudinary.uploader.upload_stream stores it
\* and uploadedUrl = cloudinaryResponse.secure_url, after both ids were drawn and
\* before prisma.zap.create
Upload(p) ==
    /\ creq[p].pc = "insert"
    /\ creq[p].version = "checked"
    /\ creq[p].uploadedUrl = 0
    /\ Cardinality(blobs) < MaxUploads
    /\ blobs' = blobs \cup {Cardinality(blobs) + 1}
    /\ creq' = [creq EXCEPT ![p].uploadedUrl = Cardinality(blobs) + 1]
    /\ UNCHANGED <<store, now, nextId, req, sweep, served, denied, table, env, zapPasswordAttemptStore, attempted>>

\* prisma.zap.create and what follows it: "checked" answers 201, the others go
\* on to the QR code; a rejected insert throws P2002 into the handler's catch
Insert(p) ==
    /\ creq[p].pc = "insert"
    /\ LET row == [id |-> Cardinality(table) + 1, shortId |-> creq[p].shortId,
                   qrId |-> creq[p].qrId, expiresAt |-> creq[p].expiresAt,
                   createdAt |-> now, cloudUrl |-> creq[p].uploadedUrl]
       IN  IF uniqueViolation(table, row)
           THEN /\ table' = table
                /\ creq' = [creq EXCEPT ![p].pc = "done",
                                        ![p].resp = <<rejectedResp(creq[p].version)>>]
           ELSE /\ Cardinality(table) < MaxRows
                /\ table' = table \cup {row}
                /\ creq' = [creq EXCEPT ![p].inserted = @ + 1,
                                        ![p].pc = IF creq[p].version = "checked"
                                                  THEN "done" ELSE "qr",
                                        ![p].resp = IF creq[p].version = "checked"
                                                    THEN <<Resp(201, "Zap created.")>> ELSE <<>>]
    /\ UNCHANGED <<store, blobs, now, nextId, req, sweep, served, denied, env, zapPasswordAttemptStore, attempted>>

\* the address the QR code carries when FRONTEND_URL is not configured
FRONTEND_URL == "http://localhost:5173"

\* `${FRONTEND_URL}/zaps/${shortId}`
shortUrl(shortId) == FRONTEND_URL \o "/zaps/" \o shortId

\* a faulty variant of fitsQrCode: the encoder rejects every text
fitsQrCodeNever(text) == Len(text) < 1

\* QRCode.toDataURL rejects an empty text and one beyond the capacity of the
\* largest symbol (2953 bytes); it resolves for every other text
fitsQrCode(text) == Len(text) >= 1 /\ Len(text) <= 2953

\* await QRCode.toDataURL(shortUrl), then the 201; a rejection lands in the
\* catch of the handler, after the row was stored
QrCode(p) ==
    /\ creq[p].pc = "qr"
    /\ creq' = [creq EXCEPT ![p].pc = "done",
                            ![p].resp = <<IF ~fitsQrCode(shortUrl(creq[p].shortId))
                                          THEN InternalError
                                          ELSE IF creq[p].version = "shorten"
                                          THEN Resp(201, "URL shortened successfully")
                                          ELSE Resp(201, "Zap created successfully")>>]
    /\ UNCHANGED <<store, blobs, now, nextId, req, sweep, served, denied, table, env, zapPasswordAttemptStore, attempted>>

\* the creation request context ends
CreateRetire(p) ==
    /\ creq[p].pc = "done"
    /\ creq' = [creq EXCEPT ![p] = IdleCreate]
    /\ UNCHANGED <<store, blobs, now, nextId, req, sweep, served, denied, table, env, zapPasswordAttemptStore, attempted>>

(* ------------------------------ the sweep, row by row ------------------ *)
\* extractPublicId: what follows "upload" and the version in the path of the
\* URL, joined by "/", without its file extension (replace(/\.[^/.]+$/, ""));
\* "" for its null. No host of the model is named "upload", so the parts of the
\* URL stand for the parts of its path
extractPublicId(cloudUrl) ==
    LET pathParts == split(cloudUrl, "/")
        at == {k \in 1..Len(pathParts) : pathParts[k] = "upload"}
        uploadIndex == IF at = {} THEN 0 ELSE CHOOSE k \in at : \A j \in at : k <= j
        RECURSIVE join(_)
        join(start) ==
            IF start > Len(pathParts) THEN ""
            ELSE IF start = Len(pathParts) THEN pathParts[start]
            ELSE pathParts[start] \o "/" \o join(start + 1)
        publicIdWithExt == join(uploadIndex + 2)
        dots == {i \in 1..Len(publicIdWithExt) : SubSeq(publicIdWithExt, i, i) = "."}
        last == IF dots = {} THEN 0 ELSE CHOOSE i \in dots : \A j \in dots : j <= i
    IN  IF uploadIndex = 0 \/ uploadIndex + 2 > Len(pathParts) THEN NoStr
        ELSE IF last = 0 \/ last = Len(publicIdWithExt)
                \/ (\E i \in last..Len(publicIdWithExt) : SubSeq(publicIdWithExt, i, i) = "/")
        THEN publicIdWithExt
        ELSE SubSeq(publicIdWithExt, 1, last - 1)

\* what a release of a blob came to. attempted: cloudinary.uploader.destroy was
\* called; failed: it rejected; thrown: the rejection left the helper
NoRelease == [attempted |-> FALSE, failed |-> FALSE, thrown |-> FALSE]

\* a faulty variant of deleteFromCloudinary: the helper has no catch
deleteFromCloudinaryUncaught(cloudUrl, destroyFails) ==
    [attempted |-> TRUE, failed |-> destroyFails, thrown |-> destroyFails]

\* deleteFromCloudinary: no call for a URL without an "upload" part (logged), nor
\* for one that ends with it (the TypeError of urlParts[startIndex].match is
\* caught); a rejection of destroy is caught and logged
deleteFromCloudinary(cloudUrl, destroyFails) ==
    LET urlParts == split(cloudUrl, "/")
    IN  IF cloudUrl = NoStr \/ ~(\E k \in 1..(Len(urlParts) - 1) : urlParts[k] = "upload")
        THEN NoRelease
        ELSE [attempted |-> TRUE, failed |-> destroyFails, thrown |-> FALSE]

\* createZap from its validation to its 201, of a request that carries a file, a
\* text or a literal originalUrl, and an expiresAt or none
CreateUploaded ==
    /\ nextId <= MaxRows
    /\ \E sid \in Candidates, kind \in {"file", "text", "literal"},
          expiresAt \in {NULL, now + 1} :
        LET row == [id |-> nextId, shortId |-> sid, qrId |-> sid, expiresAt |-> expiresAt,
                    createdAt |-> now,
                    cloudUrl |-> NewZap(nextId, NULL, expiresAt, NULL, NoStr, NoStr,
                                        kind).cloudUrl]
        IN  /\ ~uniqueViolation(table, row)
            /\ table' = table \cup {row}
            /\ blobs' = IF kind = "file" THEN blobs \cup {nextId} ELSE blobs
    /\ nextId' = nextId + 1
    /\ UNCHANGED <<store, now, req, sweep, served, denied, creq, env, zapPasswordAttemptStore, attempted>>

\* the scheduled task of initializeCronJobs (version "cron") or
\* cleanupExpiredZaps (version "cleanup") up to its loop: findMany of the rows
\* whose expiresAt is past
SweepSelect(version) ==
    /\ sweep.pc = "idle"
    /\ LET expiredZaps == {zap \in table : zap.expiresAt # NULL /\ zap.expiresAt < now}
       IN  sweep' = IF expiredZaps = {} THEN IdleSweep
                    ELSE [IdleSweep EXCEPT !.pc = version, !.found = expiredZaps,
                                           !.todo = expiredZaps]
    /\ UNCHANGED <<store, blobs, now, nextId, req, served, denied, table, creq, env, zapPasswordAttemptStore, attempted>>

\* one turn of the loop over expiredZaps: the release of the blob, then
\* prisma.zap.delete. In "cron" any error leaves the loop for the catch around
\* it; in "cleanup" the release has a catch of its own and the turn another
SweepItem ==
    /\ sweep.pc \in {"cron", "cleanup"}
    /\ \E zap \in sweep.todo, destroyFails \in BOOLEAN, deleteFails \in BOOLEAN :
        LET release ==
                IF sweep.pc = "cron"
                THEN (IF zap.cloudUrl # NoStr
                      THEN deleteFromCloudinary(zap.cloudUrl, destroyFails) ELSE NoRelease)
                ELSE IF /\ zap.cloudUrl # NoStr
                        /\ \E i \in 1..(Len(zap.cloudUrl) - 9) :
                              SubSeq(zap.cloudUrl, i, i + 9) = "cloudinary"
                        /\ extractPublicId(zap.cloudUrl) # NoStr
                THEN [attempted |-> TRUE, failed |-> destroyFails, thrown |-> FALSE]
                ELSE NoRelease
            rejected == ~release.thrown /\ (deleteFails \/ zap \notin table)
            deleted == ~release.thrown /\ ~rejected
            todo == sweep.todo \ {zap}
        IN  /\ blobs' = IF release.attempted /\ ~release.failed THEN blobs \ {zap.id}
                        ELSE blobs
            /\ table' = IF deleted THEN table \ {zap} ELSE table
            /\ sweep' = [sweep EXCEPT
                            !.pc = IF todo = {} \/ (sweep.pc = "cron" /\ ~deleted)
                                   THEN "idle" ELSE @,
                            !.todo = todo,
                            !.released = IF release.attempted THEN @ \cup {zap.id} ELSE @,
                            !.unreleased = IF release.failed THEN @ \cup {zap.id} ELSE @,
                            !.erred = IF rejected THEN @ \cup {zap.id} ELSE @]
    /\ UNCHANGED <<store, now, nextId, req, served, denied, creq, env, zapPasswordAttemptStore, attempted>>

(* ------------------------------ content envelope: calls ---------------- *)
\* the texts handed to encryptText: the empty one and those of 1..MaxText
\* characters; the code points are a newline (one UTF-8 byte) and characters of
\* two, three and four UTF-8 bytes
Texts == UNION {[1..n -> {10, 233, 22909, 128640}] : n \in 0..MaxText}

\* encryptText(text) with the next two draws of crypto.randomBytes, while the
\* envelope at hand is as it was sealed
Seal ==
    /\ env.drawn + 2 <= MaxSeeds
    /\ env.damage = "none"
    /\ \E text \in Texts :
        LET r == encryptText(text, env.drawn + 1, env.drawn + 2)
            before == IF text = env.text THEN env.sealed ELSE {}
        IN  /\ env' = IF r.ok
                      THEN [envelope |-> r.value, text |-> text,
                            drawn |-> env.drawn + 2,
                            sealed |-> before \cup {r.value},
                            repeated |-> r.value \in before,
                            damage |-> "none", op |-> "seal", out |-> <<r>>,
                            key |-> env.key]
                      ELSE [NoEnvelope EXCEPT !.drawn = env.drawn, !.op = "seal",
                                              !.out = <<r>>]
            /\ UNCHANGED <<store, blobs, now, nextId, req, sweep, served, denied, table, creq, zapPasswordAttemptStore, attempted>>

\* decryptText(envelope at hand)
Open ==
    /\ env.envelope # NoStr
    /\ env.op # "open"
    /\ env' = [env EXCEPT !.op = "open", !.out = <<decryptText(env.envelope)>>]
    /\ UNCHANGED <<store, blobs, now, nextId, req, sweep, served, denied, table, creq, zapPasswordAttemptStore, attempted>>

\* one byte of the tag field or of the ciphertext field of the stored envelope
\* is changed. Flips(ch) is what may take the place of character ch: for a
\* letter of the alphabet the letters whose six bits differ from its own in the
\* lowest or in the highest bit, for the padding a letter
Tamper ==
    /\ env.envelope # NoStr
    /\ env.damage = "none"
    /\ LET parts == split(env.envelope, ":")
           Flips(ch) ==
               IF ch = "=" THEN {"A"}
               ELSE LET i == CHOOSE k \in 0..63 : SubSeq(Base64Alphabet, k + 1, k + 1) = ch
                        lowest == IF i % 2 = 0 THEN i + 1 ELSE i - 1
                        highest == (i + 32) % 64
                    IN  {SubSeq(Base64Alphabet, lowest + 1, lowest + 1),
                         SubSeq(Base64Alphabet, highest + 1, highest + 1)}
       IN  \E field \in {3, 4} :
           \E i \in 1..Len(parts[field]) :
           \E ch \in Flips(SubSeq(parts[field], i, i)) :
               LET changed == SubSeq(parts[field], 1, i - 1) \o ch
                              \o SubSeq(parts[field], i + 1, Len(parts[field]))
               IN  env' = [env EXCEPT
                            !.envelope = parts[1] \o ":" \o parts[2] \o ":"
                                         \o (IF field = 3 THEN changed ELSE parts[3]) \o ":"
                                         \o (IF field = 4 THEN changed ELSE parts[4]),
                            !.damage = IF field = 3 THEN "tag" ELSE "ciphertext",
                            !.op = "tamper", !.out = <<>>]
    /\ UNCHANGED <<store, blobs, now, nextId, req, sweep, served, denied, table, creq, zapPasswordAttemptStore, attempted>>

\* the stored envelope loses or gains a field, or a byte of its salt, iv or tag
Malform ==
    /\ env.envelope # NoStr
    /\ env.damage = "none"
    /\ LET parts == split(env.envelope, ":")
           short(part) == toBase64(SubSeq(fromBase64(part), 2, Len(fromBase64(part))))
       IN  \E kind \in {"fields", "salt", "iv", "authTag"}, more \in BOOLEAN :
             env' = [env EXCEPT
                      !.envelope =
                          CASE kind = "fields" /\ more -> env.envelope \o ":" \o parts[4]
                            [] kind = "fields" /\ ~more ->
                                  parts[1] \o ":" \o parts[2] \o ":" \o parts[4]
                            [] kind = "salt" ->
                                  (IF more THEN toBase64(<<0>> \o fromBase64(parts[1]))
                                   ELSE short(parts[1]))
                                  \o ":" \o parts[2] \o ":" \o parts[3] \o ":" \o parts[4]
                            [] kind = "iv" ->
                                  parts[1] \o ":"
                                  \o (IF more THEN toBase64(<<0>> \o fromBase64(parts[2]))
                                      ELSE short(parts[2]))
                                  \o ":" \o parts[3] \o ":" \o parts[4]
                            [] kind = "authTag" ->
                                  parts[1] \o ":" \o parts[2] \o ":"
                                  \o (IF more THEN toBase64(<<0>> \o fromBase64(parts[3]))
                                      ELSE short(parts[3]))
                                  \o ":" \o parts[4],
                      !.damage = kind, !.op = "malform", !.out = <<>>]
    /\ UNCHANGED <<store, blobs, now, nextId, req, sweep, served, denied, table, creq, zapPasswordAttemptStore, attempted>>

(* ------------------------------ deployment and storage ---------------- *)
\* the process is started again with TEXT_ENCRYPTION_KEY set or not set; no
\* request is in progress
Redeploy ==
    /\ \A p \in Procs : req[p].pc = "idle" /\ creq[p].pc = "idle"
    /\ \E key \in {NoStr, ENCRYPTION_KEY} : env' = [env EXCEPT !.key = key]
    /\ UNCHANGED <<store, blobs, now, nextId, req, sweep, served, denied, table, creq, zapPasswordAttemptStore, attempted>>

\* storage damages the sealed text of a stored row
Corrupt ==
    /\ \E sid \in ShortIds :
        /\ store[sid] # NoZap
        /\ store[sid].originalUrl = "TEXT_CONTENT:" \o SealedText
        /\ store' = [store EXCEPT ![sid].originalUrl = "TEXT_CONTENT:" \o CorruptedText]
    /\ UNCHANGED <<blobs, now, nextId, req, sweep, served, denied, table, creq, env, zapPasswordAttemptStore, attempted>>

(* ------------------------------ migrateTextContent --------------------- *)
\* one turn of the loop of migrateTextContent over the rows of type TEXT: a
\* row whose originalUrl is "TEXT_CONTENT:" and something isEncrypted does not
\* recognise gets that content encrypted in place
Migrate ==
    \E sid \in ShortIds :
        LET zap == store[sid]
            prefix == "TEXT_CONTENT:"
            content == SubSeq(zap.originalUrl, Len(prefix) + 1, Len(zap.originalUrl))
            codePoints == [i \in 1..Len(content) |->
                            96 + CHOOSE k \in 1..Len(LowerLetters) :
                                    SubSeq(LowerLetters, k, k) = SubSeq(content, i, i)]
        IN  /\ zap # NoZap
            /\ Len(zap.originalUrl) > Len(prefix)
            /\ SubSeq(zap.originalUrl, 1, Len(prefix)) = prefix
            /\ ~isEncrypted(content)
            /\ env.drawn + 2 <= MaxSeeds
            /\ store' = [store EXCEPT ![sid].originalUrl =
                            prefix \o encryptText(codePoints, env.drawn + 1, env.drawn + 2).value]
            /\ env' = [env EXCEPT !.drawn = @ + 2]
            /\ UNCHANGED <<blobs, now, nextId, req, sweep, served, denied, table, creq, zapPasswordAttemptStore, attempted>>

(* ------------------------------ specifications ------------------------- *)

\* texts sealed and opened again
SpecEnvelope == Init /\ [][Seal \/ Open]_vars

\* sealed envelopes damaged in storage, then opened
SpecEnvelopeDamaged == Init /\ [][Seal \/ Tamper \/ Malform \/ Open]_vars

Sweep == SweepFindExpired \/ SweepDestroy \/ SweepFindOverLimit

\* concurrent callers that hold the item's password or none
ConcurrentStart(p, h) ==
    \E sid \in ShortIds, password \in {NoStr, GoodPassword} :
        StartResolve(p, h, sid, password, NoStr)

\* one caller at a time, any credentials
AnyStart(h) ==
    \E sid \in ShortIds, password \in Passwords, quizAnswer \in Answers :
        StartResolve(1, h, sid, password, quizAnswer)

SpecTx ==
    Init /\ [][
          \/ Tick \/ CreatePlainGated \/ Sweep
          \/ \E p \in Procs :
              ConcurrentStart(p, "tx") \/ Gates(p) \/ TxFind(p) \/ TxUpdate(p) \/ Retire(p)
    ]_vars

\* a creation whose body carries type "text" and a literal originalUrl
CreateLiteral ==
    \E sid \in ShortIds, viewLimit \in {NULL} \cup (1..MaxLimit) :
        createZap(sid, viewLimit, NULL, 0, NoStr, NoStr, "literal")

\* items created and resolved while migrateTextContent runs
SpecMigrate ==
    Init /\ [][
          \/ CreatePlainGated \/ CreateLiteral \/ Migrate
          \/ ConcurrentStart(1, "tx") \/ Gates(1) \/ TxFind(1) \/ TxUpdate(1) \/ Retire(1)
    ]_vars

\* getZapAnalytics, one caller at a time, over items with and without a
\* deletionToken, beside the sweep
SpecAnalytics ==
    Init /\ [][
          \/ Tick \/ CreatePlainGated \/ CreateUntokened \/ Sweep
          \/ AnalyticsStart(1) \/ AnalyticsFetch(1) \/ Retire(1)
    ]_vars

\* wrong and right passwords of several callers while half windows elapse
SpecLimiter ==
    Init /\ [][
          \/ RegisterAttempt \/ ClearAttempts
          \/ /\ now + windowMs \div 2 <= MaxTime * windowMs
             /\ now' = now + windowMs \div 2
             /\ UNCHANGED <<store, blobs, nextId, req, sweep, served, denied, table, creq,
                            env, zapPasswordAttemptStore, attempted>>
    ]_vars

\* texts, literal texts and files resolved through the raw-UPDATE handler while
\* the process is started with and without its secret and storage damages
\* sealed texts
SpecContent ==
    Init /\ [][
          \/ CreatePlainGated \/ CreateLiteral \/ Redeploy \/ Corrupt
          \/ ConcurrentStart(1, "raw") \/ Gates(1) \/ RawUpdate(1) \/ Retire(1)
    ]_vars

\* the two row-by-row sweeps over rows that expire
SpecSweepItems ==
    Init /\ [][Tick \/ CreateUploaded \/ SweepSelect("cron") \/ SweepSelect("cleanup")
                  \/ SweepItem]_vars

SpecTxGate ==
    Init /\ [][
          \/ Tick \/ CreateAny \/ Sweep
          \/ AnyStart("tx") \/ Gates(1) \/ TxFind(1) \/ TxUpdate(1) \/ Retire(1)
    ]_vars

\* one caller at a time with any password, items without quiz or delay
PasswordStart(h) ==
    \E sid \in ShortIds, password \in Passwords :
        StartResolve(1, h, sid, password, NoStr)

SpecTxTerminal ==
    Init /\ [][
          \/ Tick \/ CreatePlainGated \/ Sweep
          \/ PasswordStart("tx") \/ Gates(1) \/ TxFind(1) \/ TxUpdate(1) \/ Retire(1)
    ]_vars

\* concurrent createZap calls with generateUniqueId
SpecCreateChecked ==
    Init /\ [][
          \E p \in Procs :
              \/ \E hasContent \in BOOLEAN : CreateBegin(p, "checked", hasContent)
              \/ GenerateUniqueId(p) \/ Insert(p) \/ CreateRetire(p)
    ]_vars

\* concurrent createZap calls with and without a file
SpecCreateUpload ==
    Init /\ [][
          \E p \in Procs :
              \/ CreateBegin(p, "checked", TRUE)
              \/ GenerateUniqueId(p) \/ Upload(p) \/ Insert(p) \/ CreateRetire(p)
    ]_vars

\* concurrent creations of every kind: both createZap versions and shortenUrl
SpecCreate ==
    Init /\ [][
          \E p \in Procs :
              \/ \E version \in CreateVersions, hasContent \in BOOLEAN :
                      CreateBegin(p, version, hasContent)
              \/ GenerateUniqueId(p) \/ Insert(p) \/ QrCode(p) \/ CreateRetire(p)
    ]_vars

\* the bodies' expiresAt: absent, unparsable, or an ISO string around the clock
ExpiresAtInputs == {NoStr, "not-a-date"} \cup {toISOString(t) : t \in 0..(MaxTime + 1)}

\* both createZap versions with an expiresAt in the body, a request at a
\* time, while the clock runs
SpecCreateDated ==
    Init /\ [][
          \/ Tick
          \/ \E p \in {1} :
              \/ \E version \in {"checked", "unchecked"}, expiresAt \in ExpiresAtInputs :
                      CreateBeginDated(p, version, TRUE, expiresAt)
              \/ GenerateUniqueId(p) \/ Insert(p) \/ QrCode(p) \/ CreateRetire(p)
    ]_vars

\* the metadata endpoint and the access validation, one caller at a time
MetaStart ==
    \E h \in MetaHandlers, sid \in ShortIds, quizAnswer \in {NoStr, GoodAnswer} :
        /\ store[sid] # NoZap \/ h # "validate"
        /\ StartResolve(1, h, sid, NoStr, quizAnswer)

SpecMetadata ==
    Init /\ [][
          \/ Tick \/ CreateAny \/ Sweep
          \/ MetaStart \/ Describe(1) \/ Retire(1)
    ]_vars

\* one caller at a time, quiz items, answers as callers type them
SuppliedAnswers == {NoStr, GoodAnswer, " Paris ", "PARIS", "rome"}
QuizStart(h) ==
    \E sid \in ShortIds, quizAnswer \in SuppliedAnswers :
        StartResolve(1, h, sid, NoStr, quizAnswer)

SpecTxQuiz ==
    Init /\ [][
          \/ Tick \/ CreateQuiz \/ Sweep
          \/ QuizStart("tx") \/ Gates(1) \/ TxFind(1) \/ TxUpdate(1) \/ Retire(1)
    ]_vars

SpecRaw ==
    Init /\ [][
          \/ Tick \/ CreatePlainGated \/ Sweep
          \/ \E p \in Procs :
              ConcurrentStart(p, "raw") \/ Gates(p) \/ RawUpdate(p) \/ Retire(p)
    ]_vars

SpecGetFile ==
    Init /\ [][
          \/ Tick \/ CreatePlainGated \/ Sweep
          \/ \E p \in Procs :
              ConcurrentStart(p, "getFile") \/ Gates(p) \/ GetFileUpdate(p) \/ Retire(p)
    ]_vars

SpecDouble ==
    Init /\ [][
          \/ Tick \/ CreatePlainGated \/ Sweep
          \/ \E p \in Procs :
              \/ ConcurrentStart(p, "double") \/ Gates(p) \/ Purge(p)
              \/ DoubleUpdate1(p) \/ DoubleUpdate2(p) \/ Retire(p)
    ]_vars

SpecV1Gate ==
    Init /\ [][
          \/ Tick \/ CreateAny \/ Sweep
          \/ AnyStart("v1") \/ Gates(1) \/ V1Update(1) \/ Retire(1)
    ]_vars

SpecQuizOnly ==
    Init /\ [][
          \/ Tick \/ CreateAny \/ Sweep
          \/ AnyStart("quizOnly") \/ Gates(1) \/ PlainUpdate(1) \/ Retire(1)
    ]_vars

SpecPlain ==
    Init /\ [][
          \/ Tick \/ CreateAny \/ Sweep
          \/ AnyStart("plain") \/ Gates(1) \/ PlainUpdate(1) \/ Retire(1)
    ]_vars

\* every version of the handler, one caller at a time
Handlers == {"tx", "raw", "v1", "quizOnly", "double", "plain", "getFile"}
Spec ==
    Init /\ [][
          \/ Tick \/ CreateAny \/ Sweep
          \/ \E h \in Handlers : AnyStart(h)
          \/ Gates(1) \/ TxFind(1) \/ TxUpdate(1) \/ RawUpdate(1) \/ V1Update(1)
          \/ PlainUpdate(1) \/ Purge(1) \/ DoubleUpdate1(1) \/ DoubleUpdate2(1)
          \/ GetFileUpdate(1) \/ Retire(1)
    ]_vars

(* ------------------------------ notions the properties use ------------- *)
\* the last response a finished request sent
LastResp(p) == req[p].resp[Len(req[p].resp)]
Finished(p) == req[p].pc = "done" /\ req[p].resp # <<>>
Quiescent == \A p \in Procs : req[p].pc \in {"idle", "done"}
Min(a, b) == IF a < b THEN a ELSE b

\* the gate a denial belongs to; a missing and a wrong password are one gate
GateOf(outcome) ==
    IF outcome \in {"PasswordRequired", "PasswordInvalid"} THEN "password" ELSE outcome

\* the first gate that fails in the order existence, expiry, quota, unlock time,
\* quiz, password; "Allowed" when none fails
FirstFailingGate(zap, password, quizAnswer, t) ==
    IF zap = NoZap THEN "NotFound"
    ELSE IF zap.expiresAt # NULL /\ t > zap.expiresAt THEN "Expired"
    ELSE IF zap.viewLimit # NULL /\ zap.viewCount >= zap.viewLimit THEN "QuotaExhausted"
    ELSE IF zap.unlockAt # NULL /\ t < zap.unlockAt THEN "Locked"
    ELSE IF hasQuizProtection(zap) /\ hashQuizAnswer(quizAnswer) # zap.quizAnswerHash
        THEN "QuizFailed"
    ELSE IF zap.passwordHash # NoStr /\ ~bcryptCompare(password, zap.passwordHash)
        THEN "password"
    ELSE "Allowed"

\* what the gates step of request p answered, read off the step's successor state
GateAnswer(q) ==
    IF q.pc = "done" THEN GateOf(Outcome(q.resp[Len(q.resp)]))
    ELSE IF q.pc = "purge" THEN GateOf(Outcome(q.pending))
    ELSE "Allowed"

(* ------------------------------ properties ----------------------------- *)
\* C1: for an item with viewLimit = N, however concurrent resolutions that pass
\* every gate interleave, at most N of them return the item's content.
C1_AtMostLimitConsumed ==
    /\ \A s \in ShortIds :
        (store[s] # NoZap /\ store[s].viewLimit # NULL)
            => served[store[s].id] <= store[s].viewLimit
    /\ \A p \in Procs :
        (req[p].zap # NoZap /\ req[p].zap.viewLimit # NULL)
            => served[req[p].zap.id] <= req[p].zap.viewLimit

\* C2: every stored item with a viewLimit has viewCount <= viewLimit, whatever
\* sequence of creations, resolutions and sweeps has run.
C2_ViewCountWithinLimit ==
    \A s \in ShortIds :
        (store[s] # NoZap /\ store[s].viewLimit # NULL)
            => store[s].viewCount <= store[s].viewLimit

\* C3: when k concurrent resolutions of an item with viewLimit = N and
\* viewCount = 0 have all completed, each of them satisfying every other gate,
\* exactly min(k, N) returned content, every other one was denied for quota,
\* and the stored viewCount is min(k, N).
C3_ExactlyMinConsumed ==
    \A s \in ShortIds :
        LET z == store[s]
            k == NumReq
            consumed == {p \in Procs : Finished(p) /\ Outcome(LastResp(p)) = "Consumed"}
        IN  ( /\ z # NoZap
              /\ z.viewLimit # NULL
              /\ \A p \in Procs :
                    /\ Finished(p)
                    /\ req[p].zap.id = z.id
                    /\ req[p].zap.viewCount = 0
                    /\ Outcome(LastResp(p)) \notin
                         {"NotFound", "Expired", "Locked", "QuizFailed",
                          "PasswordRequired", "PasswordInvalid"} )
            => /\ Cardinality(consumed) = Min(k, z.viewLimit)
               /\ \A p \in Procs \ consumed : Outcome(LastResp(p)) = "QuotaExhausted"
               /\ z.viewCount = Min(k, z.viewLimit)

\* C4: a resolution sends content only in the step whose increment succeeded:
\* every gate had passed, the row was under its quota at that moment and its
\* viewCount went up by one; a caller whose quota was used up by another between
\* its pre-check and its increment is not given content.
C4_ContentOnlyOnSuccessfulIncrement ==
    [][ \A p \in Procs :
          ( /\ req[p].pc # "done"
            /\ req'[p].pc = "done"
            /\ IsContent(req'[p].resp[Len(req'[p].resp)]) )
          => LET row == store[req[p].shortId] IN
             /\ req[p].pc \notin {"idle", "gates"}
             /\ row # NoZap
             /\ row.viewLimit = NULL \/ row.viewCount < row.viewLimit
             /\ store'[req[p].shortId].viewCount = row.viewCount + 1 ]_vars

\* C5: every resolution that returns content raises the stored viewCount by
\* exactly one: with no request in flight, an item's viewCount is the number of
\* responses that carried its content (so the first correct resolution of an
\* item with viewLimit = 1 returns content and leaves viewCount = 1).
C5_OneIncrementPerContent ==
    Quiescent =>
        \A s \in ShortIds :
            store[s] # NoZap => store[s].viewCount = served[store[s].id]

\* C6: the stored viewCount of an item never decreases.
C6_ViewCountNeverDecreases ==
    [][ \A s \in ShortIds :
          (store[s] # NoZap /\ store'[s] # NoZap /\ store'[s].id = store[s].id)
            => store'[s].viewCount >= store[s].viewCount ]_vars

\* C7: the gates step answers with the first gate that fails in the order
\* existence, expiry, quota, unlock time, quiz, password, and admits the request
\* only when none fails (an item with quiz and password, a correct quiz answer
\* and no password: the password gate, never content).
C7_FirstFailingGateDecides ==
    [][ \A p \in Procs :
          (req[p].pc = "gates" /\ req'[p].pc # "gates")
            => GateAnswer(req'[p]) =
                 FirstFailingGate(req[p].zap, req[p].password, req[p].quizAnswer, now) ]_vars

\* C8: a resolution of an item that is expired, or whose viewCount has reached
\* its viewLimit, never returns content, whether or not the sweep has run.
C8_NoContentWhenExpiredOrOverQuota ==
    \A p \in Procs :
        (Finished(p) /\ IsContent(LastResp(p)))
            => /\ ~req[p].expiredAtStart
               /\ ~(req[p].zap.viewLimit # NULL
                    /\ req[p].zap.viewCount >= req[p].zap.viewLimit)

\* C9: Expired and QuotaExhausted are terminal: a resolution that starts after
\* the item has been denied as expired or over quota never returns content,
\* whatever the credentials and the time: it is answered Expired, QuotaExhausted
\* or NotFound.
C9_DenialIsTerminal ==
    \A p \in Procs :
        (Finished(p) /\ req[p].afterDenial)
            => Outcome(LastResp(p)) \in {"Expired", "QuotaExhausted", "NotFound"}

\* C9, the case: a resolution of an item already denied has completed
C9_Witness ==
    \E p \in Procs :
        /\ Finished(p)
        /\ req[p].afterDenial
        /\ req[p].password = GoodPassword
        /\ Outcome(LastResp(p)) \in {"Expired", "QuotaExhausted"}

\* C10: a resolution denied by a gate leaves the store as it was: no viewCount
\* change, no record deleted, no blob released.
C10_DenialChangesNothing ==
    [][ \A p \in Procs :
          ( /\ req[p].pc \in {"gates", "purge"}
            /\ req'[p].pc = "done"
            /\ Outcome(req'[p].resp[Len(req'[p].resp)]) \in GateDenials )
          => (store' = store /\ blobs' = blobs) ]_vars

\* C11: for an item with a password, a resolution stopped at the password gate
\* is answered PasswordRequired when it sent no password and PasswordInvalid
\* when it sent a wrong one, so the caller can tell the two apart.
C11_RequiredAndInvalidDiffer ==
    \A p \in Procs :
        (Finished(p) /\ GateOf(Outcome(LastResp(p))) = "password")
            => Outcome(LastResp(p)) =
                 (IF req[p].password = NoStr THEN "PasswordRequired" ELSE "PasswordInvalid")

\* C12: a resolution of a quiz item that reaches the quiz gate passes it exactly
\* when the supplied answer equals the creator's answer after trimming and
\* lowering the case of both; otherwise it is answered QuizFailed.
C12_QuizMatchesNormalised ==
    \A p \in Procs :
        ( /\ Finished(p)
          /\ hasQuizProtection(req[p].zap)
          /\ Outcome(LastResp(p)) \notin {"NotFound", "Expired", "QuotaExhausted", "Locked"} )
        => ( (Outcome(LastResp(p)) = "QuizFailed")
               <=> (bcryptHash(trimLower(req[p].quizAnswer)) # req[p].zap.quizAnswerHash) )

\* whether a response carries the item's quiz question
Discloses(r) ==
    \/ "quizQuestion" \in DOMAIN r /\ r.quizQuestion # NoStr
    \/ r = Resp(423, "quiz_required")

\* C13: while an item is locked (unlockAt set and now < unlockAt), no response
\* about it - of a resolution, of getZapMetadata, or the result of
\* validateFileAccess - carries its quiz question.
C13_LockedItemHidesQuestion ==
    [][ \A p \in Procs :
          ( /\ req[p].pc # "done"
            /\ req'[p].pc = "done"
            /\ req[p].zap.unlockAt # NULL
            /\ now < req[p].zap.unlockAt )
          => ~Discloses(req'[p].resp[Len(req'[p].resp)]) ]_vars

\* C14: for an item with viewLimit = null, a resolution is never answered
\* QuotaExhausted, and every resolution the gates admitted whose record is still
\* stored increments viewCount and returns content, whatever the viewCount.
C14_UnlimitedNeverExhausted ==
    [][ \A p \in Procs :
          ( /\ req[p].pc \notin {"idle", "done"}
            /\ req'[p].pc = "done"
            /\ req[p].zap # NoZap
            /\ req[p].zap.viewLimit = NULL )
          => LET r == req'[p].resp[Len(req'[p].resp)] IN
             /\ Outcome(r) # "QuotaExhausted"
             /\ (req[p].pc # "gates" /\ store[req[p].shortId] # NoZap)
                  => /\ IsContent(r)
                     /\ store'[req[p].shortId].viewCount
                          = store[req[p].shortId].viewCount + 1 ]_vars

\* C15: no two stored rows have the same shortId and no two have the same qrId,
\* however concurrent createZap and shortenUrl calls interleave.
C15_IdsUnique ==
    \A r1 \in table, r2 \in table :
        r1 # r2 => (r1.shortId # r2.shortId /\ r1.qrId # r2.qrId)

\* C15, the case: two rows are stored, and a creation that drew an id already
\* in the table has been answered
C15_Witness ==
    /\ Cardinality(table) = 2
    /\ \E p \in Procs :
        /\ creq[p].pc = "done"
        /\ creq[p].inserted = 0
        /\ creq[p].shortId # NoStr
        /\ \E r \in table : r.shortId = creq[p].shortId \/ r.qrId = creq[p].qrId

\* C16: generateUniqueId checks candidates one at a time and returns the first
\* one not in use: it returns on its j-th existence check (j <= 5) when the j - 1
\* candidates before were all in use, it goes on only after a candidate in use,
\* and it fails after exactly 5 existence checks, all of them on ids in use.
C16_FirstFreeCandidate ==
    [][ \A p \in Procs :
          (creq[p].pc \in {"shortId", "qrId"} /\ creq'[p] # creq[p])
          => LET fieldName == creq[p].pc
                 returns == creq'[p].pc \notin {fieldName, "done"}
                 throws == creq'[p].pc = "done"
             IN  /\ returns =>
                      /\ ~(\E r \in table : r[fieldName] = creq'[p][fieldName])
                      /\ creq[p].collisions = creq[p].checks
                      /\ creq[p].checks + 1 = creq[p].attempt
                      /\ creq[p].attempt <= 5
                 /\ throws =>
                      /\ creq'[p].checks = 5
                      /\ creq'[p].collisions = 5
                 /\ (~returns /\ ~throws) =>
                      /\ creq'[p].collisions = creq[p].collisions + 1
                      /\ creq'[p].checks = creq[p].checks + 1
                      /\ creq'[p].checks < 5 ]_vars

\* C16, the case: an allocation of shortId has failed after 5 checks
C16_Witness ==
    \E p \in Procs :
        /\ creq[p].pc = "done"
        /\ creq[p].allocs = {"shortId"}
        /\ creq[p].checks = 5

\* C17: when the allocation of shortId or of qrId has used up its 5 attempts,
\* createZap answers 503 (not 500, not 409) and has inserted no row; when it
\* is the shortId that could not be allocated, no allocation of qrId was tried.
C17_ExhaustionIsUnavailable ==
    \A p \in Procs :
        (creq[p].pc = "done" /\ creq[p].collisions = 5)
        => /\ creq[p].resp[1].status = 503
           /\ creq[p].resp[1] \notin {InternalError,
                  Resp(409, "Resource with this ID already exists. Please try again.")}
           /\ creq[p].inserted = 0
           /\ creq[p].shortId = NoStr => ("qrId" \notin creq[p].allocs /\ creq[p].qrId = NoStr)

\* C17, the case: the allocation of qrId has used up its attempts
C17_Witness ==
    \E p \in Procs :
        /\ creq[p].pc = "done"
        /\ creq[p].collisions = 5
        /\ creq[p].shortId # NoStr
        /\ creq[p].allocs = {"shortId", "qrId"}

\* C18: a creation whose existence checks both reported its ids free does not
\* fail because a concurrent creation took one of them first: it retries and
\* succeeds (201).
C18_RaceIsRetried ==
    \A p \in Procs :
        ( /\ creq[p].pc = "done"
          /\ creq[p].version = "checked"
          /\ creq[p].shortId # NoStr
          /\ creq[p].qrId # NoStr )
        => creq[p].resp[1].status = 201

\* C19: when the store rejects createZap's insert for a unique-constraint
\* violation, createZap answers 409 "Resource with this ID already exists..."
\* and nothing is stored for the request.
C19_RejectedInsertIsConflict ==
    [][ \A p \in Procs :
          ( /\ creq[p].pc = "insert"
            /\ creq'[p].pc # "insert"
            /\ \E r \in table : r.shortId = creq[p].shortId \/ r.qrId = creq[p].qrId )
          => /\ creq'[p].resp =
                  <<Resp(409, "Resource with this ID already exists. Please try again.")>>
             /\ table' = table
             /\ creq'[p].inserted = 0 ]_vars

\* C19, the case: a creation has been answered 409
C19_Witness ==
    \E p \in Procs :
        /\ creq[p].pc = "done"
        /\ creq[p].resp[1].status = 409
        /\ \E r \in table : r.shortId = creq[p].shortId \/ r.qrId = creq[p].qrId

\* C20: a creation answers 201 only when it has inserted exactly one row, which
\* is stored with its ids, and whenever it answers an error (400, 409, 500, 503)
\* it has inserted none.
C20_CreationOutcomeAtomic ==
    \A p \in Procs :
        creq[p].pc = "done"
        => IF creq[p].resp[1].status = 201
           THEN /\ creq[p].inserted = 1
                /\ \E r \in table : r.shortId = creq[p].shortId /\ r.qrId = creq[p].qrId
           ELSE /\ creq[p].resp[1].status \in {400, 409, 415, 500, 503}
                /\ creq[p].inserted = 0

\* C20, the case: the createZap that draws its ids unchecked has answered 201,
\* and another creation has been refused
C20_Witness ==
    \E p, q \in Procs :
        /\ creq[p].pc = "done" /\ creq[p].version = "unchecked"
        /\ creq[p].resp[1].status = 201
        /\ creq[q].pc = "done" /\ creq[q].inserted = 0

\* C21: every stored item has expiresAt null or strictly later than the time
\* of its creation; a creation whose expiresAt does not parse, or is not in the
\* future, is answered 400 and inserts nothing.
C21_ExpiresAfterCreation ==
    /\ \A r \in table : r.expiresAt = NULL \/ r.expiresAt > r.createdAt
    /\ \A p \in Procs :
        (creq[p].pc = "done" /\ creq[p].resp[1].status = 400) => creq[p].inserted = 0

C29_DamagedEnvelopeRejected ==
    (env.op = "open" /\ env.damage # "none")
    => /\ ~env.out[1].ok
       /\ env.damage \in {"fields", "salt", "iv", "authTag"} => ~env.out[1].derived

\* C30: two encryptText calls on the same text never return the same envelope,
\* and each of the envelopes opens to that text.
C30_SealIsFresh ==
    /\ ~env.repeated
    /\ \A e \in env.sealed : decryptText(e).ok /\ decryptText(e).value = env.text

\* C30, the case: the same text was sealed twice
C30_Witness ==
    /\ env.op = "seal"
    /\ Cardinality(env.sealed) = 2

\* C22: after an item is created, no operation changes any field of it other
\* than viewCount: gates, identifiers and content stay as created until the
\* record is deleted.
C22_OnlyViewCountChanges ==
    [][ \A sid \in ShortIds :
          (store[sid] # NoZap /\ store'[sid] # NoZap /\ store'[sid].id = store[sid].id)
          => [store'[sid] EXCEPT !.viewCount = store[sid].viewCount] = store[sid] ]_vars

\* C23: when the sweep has deleted an item under a resolution the gates admitted,
\* the resolution is answered NotFound or Expired (or it had already counted its
\* view and returned the content); it is never answered a quota denial or an
\* internal error because the record disappeared.
C23_SweptUnderResolution ==
    [][ \A p \in Procs :
          ( /\ req[p].pc \notin {"idle", "done", "gates"}
            /\ req'[p].pc = "done"
            /\ req[p].zap # NoZap
            /\ store[req[p].shortId] = NoZap )
          => Outcome(req'[p].resp[Len(req'[p].resp)]) \in {"NotFound", "Expired"} ]_vars

\* C24: an error while one row is cleaned up does not stop the sweep: when the
\* sweep is over, its loop has reached every row it selected.
C24_SweepReachesEveryItem ==
    sweep.pc = "idle" => sweep.todo = {}

\* C25: a failed release of the blob of an expired row does not prevent the
\* deletion of the row in the same turn of the sweep (the store accepting it).
C25_FailedReleaseStillDeletes ==
    [][ \A zap \in table :
          ( /\ zap.id \in sweep'.unreleased \ sweep.unreleased
            /\ zap.id \notin sweep'.erred )
          => zap \notin table' ]_vars

\* a sweep whose release of the blob of a row failed (the blob is still stored)
\* and which deleted the row
C25_Witness ==
    /\ sweep.found # {}
    /\ \E zap \in sweep.found :
          /\ zap.id \in sweep.unreleased
          /\ zap.id \in blobs
          /\ zap \notin table

\* C26: the sweeper never deletes the record of an item that has an external
\* blob without having attempted a release of the blob first.
C26_ReleaseBeforeDelete ==
    [][ \A s \in ShortIds :
          ( /\ sweep.pc \in {"destroyExpired", "destroyOver"}
            /\ sweep' # sweep
            /\ store[s] # NoZap
            /\ store[s].id \in blobs
            /\ store'[s] = NoZap )
          => store[s].id \in sweep'.released ]_vars

\* C27: once cleanupTask (deleteExpiredZaps, then deleteOverLimitZaps) is over, no
\* row that had a viewLimit and viewCount >= viewLimit when it started is left
\* in the store.
C27_OverLimitRetired ==
    sweep.pc \in {"destroyOver", "idle"}
        => \A s \in ShortIds : store[s] = NoZap \/ store[s].id \notin sweep.over

\* C31: a resolution of a sealed text answered while the master secret is absent
\* gets a response the caller can tell from the response a corrupted envelope
\* gets where the secret is set.
C31_AbsentSecretDistinguishable ==
    [][ \A p \in Procs :
          ( /\ req[p].pc = "update"
            /\ req'[p].pc = "done"
            /\ store' # store
            /\ req[p].zap.originalUrl = "TEXT_CONTENT:" \o SealedText
            /\ validateEncryptionKey(env.key) # NoStr )
          => req'[p].resp[Len(req'[p].resp)]
                # deliver(ENCRYPTION_KEY,
                          [req[p].zap EXCEPT !.originalUrl = "TEXT_CONTENT:" \o CorruptedText]) ]_vars

\* C32: an item whose stored content is "TEXT_CONTENT:" followed by plaintext
\* (written before texts were sealed) resolves to its content where the secret
\* is set, with no migration.
C32_LegacyTextResolves ==
    [][ \A p \in Procs :
          ( /\ req[p].pc = "update"
            /\ req'[p].pc = "done"
            /\ store' # store
            /\ req[p].zap.originalUrl = LiteralUrl
            /\ env.key = ENCRYPTION_KEY )
          => IsContent(req'[p].resp[Len(req'[p].resp)]) ]_vars

\* C33: getZapAnalytics answers analytics only to the token that equals the
\* item's deletionToken: no token is answered 401, an unknown shortId 404, a
\* token that does not match, or an item without token, 403; none of these
\* responses is the analytics response.
C33_AnalyticsNeedOwnerToken ==
    \A p \in Procs :
        (req[p].handler = "analytics" /\ req[p].pc = "done") =>
            LET r == req[p].resp[1]
                zap == req[p].zap
                token == req[p].token
            IN  /\ r = Resp(200, "Analytics retrieved successfully.")
                    => (zap # NoZap /\ token # NoStr /\ token = zap.deletionToken)
                /\ token = NoStr => r.status = 401
                /\ (token # NoStr /\ zap = NoZap) => r.status = 404
                /\ (token # NoStr /\ zap # NoZap
                        /\ (zap.deletionToken = NoStr \/ token # zap.deletionToken))
                    => r.status = 403

\* analytics answered to the caller that sent the item's deletionToken
C33_Witness ==
    \E p \in Procs :
        /\ req[p].handler = "analytics" /\ req[p].pc = "done"
        /\ req[p].resp = <<Resp(200, "Analytics retrieved successfully.")>>
        /\ req[p].token = req[p].zap.deletionToken


(* ------------------------------ what a response discloses -------------- *)
\* the data member of the ApiResponse a version of getZapByShortId sends:
\* res.json(new ApiResponse(200, updatedZap, "Success")) and
\* res.json(new ApiResponse(200, zap, "Success")) carry the row with every
\* column; every other response carries none of the row's secrets
responseData(handler, r, zap) ==
    IF handler \in {"tx", "quizOnly", "plain"} /\ r = Resp(200, "Success")
    THEN zap ELSE NoZap

\* C34: no response of getZapByShortId for an item contains the item's
\* deletionToken; the token leaves the service only in the response of the
\* creation call
C34_TokenOnlyToCreator ==
    \A p \in Procs :
        \A i \in 1..Len(req[p].resp) :
            responseData(req[p].handler, req[p].resp[i], req[p].zap).deletionToken = NoStr


\* C35: a resolution that has passed the gates and is answered an error (the
\* stored text does not decrypt, the item has no content) leaves every stored
\* item, its viewCount included, as it was.
C35_ErrorLeavesViewCount ==
    [][ \A p \in Procs :
          ( /\ req[p].pc = "update"
            /\ req'[p].pc = "done"
            /\ ~IsContent(req'[p].resp[Len(req'[p].resp)]) )
          => store' = store ]_vars


\* C36: a finished invocation of getZapByShortId has sent exactly one response
\* and has attempted no further response after it, on every path.
C36_ExactlyOneResponse ==
    \A p \in Procs :
        req[p].pc = "done"
            => /\ Len(req[p].resp) = 1
               /\ "ERR_HTTP_HEADERS_SENT" \notin req[p].effects


\* C37: when a createZap call has completed, the blob it uploaded is the
\* cloudUrl of a stored row; no blob is left that no row refers to.
C37_NoOrphanBlob ==
    \A p \in Procs :
        (creq[p].pc = "done" /\ creq[p].uploadedUrl # 0)
            => \E row \in table : row.cloudUrl = creq[p].uploadedUrl


\* C38: every row the sweep's deleteMany removes has, when it is removed,
\* expiresAt earlier than now or a viewLimit that viewCount has reached.
C38_SweepDeletesOnlyDead ==
    [][ (sweep.pc \in {"destroyExpired", "destroyOver"} /\ sweep'.pc # sweep.pc)
          => \A s \in ShortIds :
                (store[s] # NoZap /\ store'[s] = NoZap)
                    => \/ (store[s].expiresAt # NULL /\ store[s].expiresAt < now)
                       \/ (store[s].viewLimit # NULL
                            /\ store[s].viewCount >= store[s].viewLimit) ]_vars


\* C39: no step of a getZapMetadata call, whatever its outcome, changes a stored
\* item: viewCount and every other field are after the call what they were
\* before it.
C39_MetadataChangesNothing ==
    [][ \A p \in Procs :
          ( /\ req'[p] # req[p]
            /\ \/ req[p].handler \in {"metadataPlain", "metadataFull"}
               \/ req'[p].handler \in {"metadataPlain", "metadataFull"} )
          => store' = store ]_vars

\* a metadata call has answered 200 for an item that is stored as it was read
C39_Witness ==
    \E p \in Procs :
        /\ req[p].pc = "done"
        /\ req[p].handler \in {"metadataPlain", "metadataFull"}
        /\ req[p].resp[1].status = 200
        /\ store[req[p].shortId] # NoZap
        /\ store[req[p].shortId] = req[p].zap


\* C40: a registration reports as attempts the number of invalid attempts the
\* caller registered since the later of the start of its current window and its
\* last clear (1 for the first registration after a clear or after the window's
\* resetAt), reports isBlocked exactly when that number exceeds max, and leaves
\* the counters of every other caller as they were. A window starts with the
\* first registration after a clear or after the previous window's resetAt.
C40_BlockedExactlyBeyondMax ==
    [][ (attempted' # attempted /\ attempted'.by # <<>>)
          => LET c == attempted'.by
                 times == attempted'.log[c]
                 inWindow[i \in 0..Len(times)] ==
                    IF i = 0 THEN [start |-> 0, n |-> 0]
                    ELSE IF inWindow[i - 1].n = 0
                            \/ times[i] >= inWindow[i - 1].start + windowMs
                    THEN [start |-> times[i], n |-> 1]
                    ELSE [start |-> inWindow[i - 1].start, n |-> inWindow[i - 1].n + 1]
                 registered == inWindow[Len(times)].n
             IN  /\ attempted'.out.attempts = registered
                 /\ attempted'.out.isBlocked <=> registered > max
                 /\ Len(times) = 1 => attempted'.out.attempts = 1
                 /\ \A d \in AttemptCallers \ {c} :
                        zapPasswordAttemptStore'[getZapPasswordAttemptKey(d[1], d[2])]
                            = zapPasswordAttemptStore[getZapPasswordAttemptKey(d[1], d[2])] ]_vars

\* a caller is blocked by its sixth attempt in a window while another caller
\* holds a counter of its own
C40_Witness ==
    /\ attempted.by # <<>>
    /\ attempted.out.isBlocked
    /\ attempted.out.attempts = max + 1
    /\ \E d \in AttemptCallers \ {attempted.by} :
            zapPasswordAttemptStore[getZapPasswordAttemptKey(d[1], d[2])].count = 1

====
